---- MODULE Spec2Model ----
(***************************************************************************)
(* Model of the fractal compute engine of Fractal-js: FractalEngine        *)
(* (initialisation, backend selection, deduplication of in-flight renders, *)
(* tiling over the worker pool, compositing, metrics, disposal), the       *)
(* WebGPUEngine lifecycle and the message handler of fractal-worker.ts.    *)
(*                                                                         *)
(* One step of the model is one run-to-completion turn of the JavaScript   *)
(* event loop on the main thread (a call, a message event, a promise       *)
(* continuation together with the microtasks it triggers) or one message   *)
(* handled by a worker.                                                    *)
(***************************************************************************)
EXTENDS Integers, Sequences, FiniteSets, TLC

(***************************************************************************)
(* Bounds of the model.                                                    *)
(***************************************************************************)
\* navigator.hardwareConcurrency ranges over 1..MaxCores
MaxCores == 2
\* number of renderFractal calls in one behaviour
MaxCalls == 2
\* the canvas of the engine's callers: options.width and options.height
CanvasWidth == 2
CanvasHeight == 1
\* tile edge used by renderWithWorkers: the edge the code derives from the
\* pixels per worker (64, 96, 128 or 160) exceeds every canvas of the model,
\* so renders of several tiles are obtained at reduced scale with an edge
\* drawn from 1..MaxTileSize
MaxTileSize == 2
\* elapsed time of one render (performance.now() difference): 1..MaxRenderTime
MaxRenderTime == 1
\* number of dispose() calls in one behaviour
MaxDisposes == 1
\* number of exceptions in renderTile other than a missing kernel
MaxFaults == 1

(***************************************************************************)
(* Program constants.                                                      *)
(***************************************************************************)
\* initializeWorkerPool: Math.min(hardwareConcurrency || 4, 32)
DefaultCores == 4
MaxWorkers == 32
\* updatePerformanceStats: the history keeps the last 100 render times
HistoryCapacity == 100
\* render*CPU: progress is reported when y % 20 === 0
CpuProgressRows == 20
\* renderTile (worker): a progress message is posted when y % 10 === 0
WorkerProgressRows == 10
\* RGBA: four bytes per pixel; the default alpha written by compositeTile
Channels == 4
OpaqueAlpha == 255

FractalTypes ==
  {"mandelbrot", "julia", "burning-ship", "newton", "lyapunov", "barnsley-fern"}

\* the kinds that have a kernel in renderWithCPU and in the worker's renderTile
SupportedTypes == {"mandelbrot", "julia", "burning-ship", "newton"}

\* kinds requested in the model: the GPU kind, the kind with its own key
\* format, and a kind no backend has a kernel for
RequestKinds == {"mandelbrot", "julia", "lyapunov"}

\* Julia c.real in units of 10^-5: 0.00004, 0.00006
JuliaCReals == {4, 6}

Min(a, b) == IF a < b THEN a ELSE b

\* Math.ceil(a / b) for positive integers
CeilDiv(a, b) == (a + b - 1) \div b

Range(f) == {f[i] : i \in DOMAIN f}


\* parameters.iterations of the requests of the model
IterationCaps == {3}

(***************************************************************************)
(* The deduplication key of renderFractal.                                 *)
(***************************************************************************)
\* Number.prototype.toFixed(4) of v * 10^-5: the sign is printed whenever
\* v < 0 (also when the digits are all zero), the magnitude is rounded to
\* the nearest multiple of 10^-4, the larger one on a tie.  The string
\* "s d.dddd" is represented by <<s, n>>, n the magnitude in units of 10^-4.
toFixed4(v) ==
  LET mag == IF v < 0 THEN -v ELSE v
  IN  <<v < 0, (mag + 5) \div 10>>

\* the c of a request that has none (every kind but julia)
NoC == [real |-> 0, imag |-> 0]

\* the template strings of renderFractal, one component per ${...}; the
\* components of a non-julia key that the string does not have are blank
Blank == <<FALSE, -1>>
\* variant: the julia template without the two c components
renderKeyMutNoC(fractalType, c, iterations, width, height) ==
  <<fractalType, Blank, Blank, iterations, width, height>>
renderKey(fractalType, c, iterations, width, height) ==
  IF fractalType = "julia"
    THEN <<"julia", toFixed4(c.real), toFixed4(c.imag), iterations, width, height>>
    ELSE <<fractalType, Blank, Blank, iterations, width, height>>

(***************************************************************************)
(* Tiling (renderWithWorkers).                                             *)
(***************************************************************************)
\* variant: the tiling without the Math.min on the tile width: the last column of
\* tiles keeps the full edge
TilesMutNoClamp(width, height, tileSize) ==
  LET tilesX == CeilDiv(width, tileSize)
      tilesY == CeilDiv(height, tileSize)
  IN  [k \in 1..(tilesX * tilesY) |->
        LET tx == (k - 1) % tilesX
            ty == (k - 1) \div tilesX
        IN  [tileX |-> tx * tileSize,
             tileY |-> ty * tileSize,
             tileWidth |-> tileSize,
             tileHeight |-> Min(tileSize, height - ty * tileSize)]]
\* the tile regions in the order the nested loops create them (ty outer,
\* tx inner); tile k (from 1) is the (k-1)-th promise pushed
Tiles(width, height, tileSize) ==
  LET tilesX == CeilDiv(width, tileSize)
      tilesY == CeilDiv(height, tileSize)
  IN  [k \in 1..(tilesX * tilesY) |->
        LET tx == (k - 1) % tilesX
            ty == (k - 1) \div tilesX
        IN  [tileX |-> tx * tileSize,
             tileY |-> ty * tileSize,
             tileWidth |-> Min(tileSize, width - tx * tileSize),
             tileHeight |-> Min(tileSize, height - ty * tileSize)]]

\* variant: every tile goes to the first pool member
workerIndexMutFirst(k, poolSize) == 0
\* workerIndex = workerPromises.length % this.workerPool.length (0-based);
\* the member of the pool that receives tile k
workerIndex(k, poolSize) == (k - 1) % poolSize

(***************************************************************************)
(* Pixel data.  The kernels and the palettes are deterministic functions   *)
(* of the global pixel coordinate and of the request, so the value         *)
(* computed for pixel (gx, gy) is represented by a number that identifies  *)
(* the pixel: distinct pixels carry distinct, non-zero values, and the     *)
(* buffers' initial zeros are distinguishable from every computed value.   *)
(***************************************************************************)
\* colorValue of the pixel at global (gx, gy)
colorValueAt(width, gx, gy) == gy * width + gx + 1

\* byte ch of the colour of the pixel at global (gx, gy); alpha is 255
colorByteAt(width, gx, gy, ch) ==
  IF ch = Channels - 1 THEN OpaqueAlpha
  ELSE (gy * width + gx) * (Channels - 1) + ch + 1

\* new ImageData(width, height): zero-filled
NewImageData(width, height) ==
  [width |-> width, height |-> height,
   data |-> [i \in 0..(width * height * Channels - 1) |-> 0]]

\* Array(height).fill(0).map(() => Array(width).fill(0))
ZeroMatrix(width, height) ==
  [y \in 0..(height - 1) |-> [x \in 0..(width - 1) |-> 0]]

\* the payload of the worker's complete message for one tile
renderTile(width, height, tile) ==
  [imageData |->
     [width |-> tile.tileWidth, height |-> tile.tileHeight,
      data |-> [i \in 0..(tile.tileWidth * tile.tileHeight * Channels - 1) |->
                 LET p == i \div Channels
                 IN  colorByteAt(width, tile.tileX + (p % tile.tileWidth),
                                 tile.tileY + (p \div tile.tileWidth),
                                 i % Channels)]],
   iterationData |->
     [y \in 0..(tile.tileHeight - 1) |->
       [x \in 0..(tile.tileWidth - 1) |->
         colorValueAt(width, tile.tileX + x, tile.tileY + y)]],
   tileX |-> tile.tileX, tileY |-> tile.tileY]

\* the result of a full scan (render*CPU) or of the GPU read-back
FullIterationData(width, height) ==
  [y \in 0..(height - 1) |-> [x \in 0..(width - 1) |-> colorValueAt(width, x, y)]]

\* ColorPalette.applyPalette over a full iteration matrix
FullImageData(width, height) ==
  [width |-> width, height |-> height,
   data |-> [i \in 0..(width * height * Channels - 1) |->
              LET p == i \div Channels
              IN  colorByteAt(width, p % width, p \div width, i % Channels)]]

(***************************************************************************)
(* Compositing (compositeTile).                                            *)
(***************************************************************************)
\* a typed-array store: an index outside the array is ignored
StoreByte(data, i, v) == IF i \in DOMAIN data THEN [data EXCEPT ![i] = v] ELSE data

\* a typed-array load: undefined outside the array, and `undefined || d` is d
LoadByteOr(data, i, d) ==
  IF i \in DOMAIN data /\ data[i] # 0 THEN data[i] ELSE d

\* the first loop nest of compositeTile, pixel p of the tile onwards
RECURSIVE CompositePixels(_, _, _, _, _, _, _, _)
CompositePixels(data, finalWidth, src, tileX, tileY, tileWidth, tileHeight, p) ==
  IF p >= tileWidth * tileHeight THEN data
  ELSE
    LET x == p % tileWidth
        y == p \div tileWidth
        srcIndex == (y * tileWidth + x) * Channels
        destIndex == ((tileY + y) * finalWidth + (tileX + x)) * Channels
        written ==
          IF srcIndex < Cardinality(DOMAIN src) /\ destIndex < Cardinality(DOMAIN data)
            THEN StoreByte(StoreByte(StoreByte(StoreByte(data,
                   destIndex, LoadByteOr(src, srcIndex, 0)),
                   destIndex + 1, LoadByteOr(src, srcIndex + 1, 0)),
                   destIndex + 2, LoadByteOr(src, srcIndex + 2, 0)),
                   destIndex + 3, LoadByteOr(src, srcIndex + 3, OpaqueAlpha))
            ELSE data
    IN  CompositePixels(written, finalWidth, src, tileX, tileY, tileWidth,
                        tileHeight, p + 1)

\* the second loop nest of compositeTile
CompositeIterations(iterationData, tileIterations, tileX, tileY, tileWidth, tileHeight) ==
  [gy \in DOMAIN iterationData |->
    LET y == gy - tileY
    IN  IF y \in 0..(tileHeight - 1) /\ y \in DOMAIN tileIterations
          THEN LET tileRow == tileIterations[y]
                   cols == {x \in 0..(tileWidth - 1) : x \in DOMAIN tileRow}
               IN  [gx \in (DOMAIN iterationData[gy]) \cup {tileX + x : x \in cols} |->
                     IF gx - tileX \in cols THEN tileRow[gx - tileX]
                     ELSE iterationData[gy][gx]]
          ELSE iterationData[gy]]

\* variant: compositeTile with destIndex computed with the tile's width as the row
\* stride instead of finalImageData.width
compositeTileMutTileStride(finalImageData, iterationData, payload, tileX, tileY, tileWidth, tileHeight) ==
  [imageData |->
     [finalImageData EXCEPT !.data =
        CompositePixels(finalImageData.data, tileWidth,
                        payload.imageData.data, tileX, tileY, tileWidth, tileHeight, 0)],
   iterationData |->
     CompositeIterations(iterationData, payload.iterationData, tileX, tileY,
                         tileWidth, tileHeight)]
compositeTile(finalImageData, iterationData, payload, tileX, tileY, tileWidth, tileHeight) ==
  [imageData |->
     [finalImageData EXCEPT !.data =
        CompositePixels(finalImageData.data, finalImageData.width,
                        payload.imageData.data, tileX, tileY, tileWidth, tileHeight, 0)],
   iterationData |->
     CompositeIterations(iterationData, payload.iterationData, tileX, tileY,
                         tileWidth, tileHeight)]


(***************************************************************************)
(* State.                                                                  *)
(***************************************************************************)
VARIABLES
  hardwareConcurrency,    \* navigator.hardwareConcurrency
  initPc,                 \* where initializeAsync is: "gpu", "workers", "done"
  gpu,                    \* the WebGPUEngine: where initialize() is, and its fields
  isWebGPUSupported,      \* FractalEngine.isWebGPUSupported
  isInitialized,          \* FractalEngine.isInitialized
  workerStatus,           \* per worker, its creation promise: "none", "pending", "fulfilled", "rejected"
  workerPool,             \* FractalEngine.workerPool, a sequence of worker ids
  terminated,             \* the workers on which terminate() was called
  inbox,                  \* per worker, the render messages posted to it, in order
  outbox,                 \* per worker, its replies not yet handled by the engine
  tasks,                  \* the renders dispatched so far (the renderTask closures)
  calls,                  \* the renderFractal calls made so far and what they returned
  currentRenderingTasks,  \* FractalEngine.currentRenderingTasks: key -> task
  performanceHistory,     \* FractalEngine.performanceHistory
  renderCount,            \* FractalEngine.renderCount
  totalRenderTime,        \* FractalEngine.totalRenderTime
  disposeCount,           \* number of dispose() calls so far
  faults,                 \* number of worker exceptions other than a missing kernel
  tiling,                 \* one worker render in isolation (SpecTiling)
  probe                   \* the input and the result of one function in isolation

engineVars ==
  <<hardwareConcurrency, initPc, gpu, isWebGPUSupported, isInitialized,
    workerStatus, workerPool, terminated, inbox, outbox, tasks, calls,
    currentRenderingTasks, performanceHistory, renderCount, totalRenderTime,
    disposeCount, faults>>

vars == <<engineVars, tiling, probe>>

\* initializeWorkerPool: Math.min(hardwareConcurrency || 4, 32)
workerCount(hc) == Min(IF hc = 0 THEN DefaultCores ELSE hc, MaxWorkers)

WorkerIds == 1..workerCount(hardwareConcurrency)

EmptyMap == [k \in {} |-> 0]

\* the value of `probe` where no function is applied in isolation
NoProbe == [phase |-> "off"]

\* the value of `tiling` in the specification of the engine
NoTiling == [phase |-> "off"]

\* the state after `new FractalEngine()` has returned: initializeAsync has run
\* up to the first await inside WebGPUEngine.initialize (requestAdapter)
EngineInit(cores) ==
  /\ hardwareConcurrency = cores
  /\ initPc = "gpu"
  /\ gpu = [pc |-> "adapter", adapter |-> FALSE, device |-> FALSE,
            pipeline |-> FALSE, bindGroupLayout |-> FALSE, isInitialized |-> FALSE]
  /\ isWebGPUSupported = FALSE
  /\ isInitialized = FALSE
  /\ workerStatus = [i \in WorkerIds |-> "none"]
  /\ workerPool = <<>>
  /\ terminated = {}
  /\ inbox = [i \in WorkerIds |-> <<>>]
  /\ outbox = [i \in WorkerIds |-> <<>>]
  /\ tasks = <<>>
  /\ calls = <<>>
  /\ currentRenderingTasks = EmptyMap
  /\ performanceHistory = <<>>
  /\ renderCount = 0
  /\ totalRenderTime = 0
  /\ disposeCount = 0
  /\ faults = 0

Init ==
  /\ \E cores \in 1..MaxCores : EngineInit(cores)
  /\ tiling = NoTiling
  /\ probe = NoProbe

(***************************************************************************)
(* Initialisation: initializeAsync, WebGPUEngine.initialize,               *)
(* initializeWorkerPool.                                                   *)
(***************************************************************************)
\* the workers whose creation promise fulfilled, in creation order
RECURSIVE FulfilledFrom(_, _)
FulfilledFrom(status, i) ==
  IF i > Cardinality(DOMAIN status) THEN <<>>
  ELSE (IF status[i] = "fulfilled" THEN <<i>> ELSE <<>>)
       \o FulfilledFrom(status, i + 1)

\* variant: the continuation running as soon as one creation promise has settled
\* (Promise.race in place of Promise.allSettled)
FinishInitIfSettledMutAny(status) ==
  IF \E i \in DOMAIN status : status[i] # "pending"
    THEN /\ workerPool' = workerPool \o FulfilledFrom(status, 1)
         /\ isInitialized' = TRUE
         /\ initPc' = "done"
    ELSE /\ initPc' = "workers"
         /\ UNCHANGED <<workerPool, isInitialized>>
\* the continuation of `await Promise.allSettled(workerPromises)` and the
\* rest of initializeAsync, once no creation promise is pending
FinishInitIfSettled(status) ==
  IF \A i \in DOMAIN status : status[i] # "pending"
    THEN /\ workerPool' = workerPool \o FulfilledFrom(status, 1)
         /\ isInitialized' = TRUE
         /\ initPc' = "done"
    ELSE /\ initPc' = "workers"
         /\ UNCHANGED <<workerPool, isInitialized>>

\* initializeWorkerPool up to its await: every worker is constructed; the
\* constructors in `thrown` throw, which rejects that worker's promise
StartWorkerPool(thrown) ==
  LET status == [i \in WorkerIds |-> IF i \in thrown THEN "rejected" ELSE "pending"]
  IN  /\ workerStatus' = status
      /\ FinishInitIfSettled(status)

\* requestAdapter settles.  ok: an adapter; otherwise null, a rejection, or
\* no navigator.gpu at all: initialize() returns false, initializeAsync
\* records it and goes on to the worker pool
GpuAdapterResolved(ok, thrown) ==
  /\ initPc = "gpu"
  /\ gpu.pc = "adapter"
  /\ IF ok
       THEN /\ thrown = {}
            /\ gpu' = [gpu EXCEPT !.pc = "device", !.adapter = TRUE]
            /\ UNCHANGED <<isWebGPUSupported, workerStatus, workerPool,
                           isInitialized, initPc>>
       ELSE /\ gpu' = [gpu EXCEPT !.pc = "failed"]
            /\ isWebGPUSupported' = FALSE
            /\ StartWorkerPool(thrown)
  /\ UNCHANGED <<hardwareConcurrency, terminated, inbox, outbox, tasks, calls,
                 currentRenderingTasks, performanceHistory, renderCount,
                 totalRenderTime, disposeCount, faults, tiling, probe>>

\* variant: isInitialized assigned before createComputePipeline is awaited
GpuDeviceResolvedMutFlagFirst(outcome, thrown) ==
  /\ initPc = "gpu"
  /\ gpu.pc = "device"
  /\ \/ /\ outcome = "ok"
        /\ gpu' = [gpu EXCEPT !.pc = "done", !.device = TRUE,
                              !.bindGroupLayout = TRUE, !.pipeline = TRUE,
                              !.isInitialized = TRUE]
        /\ isWebGPUSupported' = TRUE
     \/ /\ outcome = "deviceError"
        /\ gpu' = [gpu EXCEPT !.pc = "failed"]
        /\ isWebGPUSupported' = FALSE
     \/ /\ outcome = "pipelineError"
        /\ gpu' = [gpu EXCEPT !.pc = "failed", !.device = TRUE,
                              !.bindGroupLayout = TRUE, !.isInitialized = TRUE]
        /\ isWebGPUSupported' = FALSE
  /\ StartWorkerPool(thrown)
  /\ UNCHANGED <<hardwareConcurrency, terminated, inbox, outbox, tasks, calls,
                 currentRenderingTasks, performanceHistory, renderCount,
                 totalRenderTime, disposeCount, faults, tiling, probe>>
\* requestDevice settles; createComputePipeline has no await of its own, so
\* the rest of initialize() and the start of the worker pool follow at once
GpuDeviceResolved(outcome, thrown) ==
  /\ initPc = "gpu"
  /\ gpu.pc = "device"
  /\ \/ /\ outcome = "ok"
        /\ gpu' = [gpu EXCEPT !.pc = "done", !.device = TRUE,
                              !.bindGroupLayout = TRUE, !.pipeline = TRUE,
                              !.isInitialized = TRUE]
        /\ isWebGPUSupported' = TRUE
     \/ /\ outcome = "deviceError"
        /\ gpu' = [gpu EXCEPT !.pc = "failed"]
        /\ isWebGPUSupported' = FALSE
     \/ /\ outcome = "pipelineError"
        /\ gpu' = [gpu EXCEPT !.pc = "failed", !.device = TRUE,
                              !.bindGroupLayout = TRUE]
        /\ isWebGPUSupported' = FALSE
  /\ StartWorkerPool(thrown)
  /\ UNCHANGED <<hardwareConcurrency, terminated, inbox, outbox, tasks, calls,
                 currentRenderingTasks, performanceHistory, renderCount,
                 totalRenderTime, disposeCount, faults, tiling, probe>>

\* variant: a creation promise that pushes its worker into the pool when it
\* fulfils, without waiting for the others
SettleWorkerMutEagerPush(i, status) ==
  /\ initPc = "workers"
  /\ workerStatus[i] = "pending"
  /\ workerStatus' = [workerStatus EXCEPT ![i] = status]
  /\ workerPool' = IF status = "fulfilled" THEN Append(workerPool, i) ELSE workerPool
  /\ IF \A j \in DOMAIN workerStatus' : workerStatus'[j] # "pending"
       THEN isInitialized' = TRUE /\ initPc' = "done"
       ELSE initPc' = "workers" /\ UNCHANGED isInitialized
  /\ UNCHANGED <<hardwareConcurrency, gpu, isWebGPUSupported, terminated, inbox,
                 outbox, tasks, calls, currentRenderingTasks, performanceHistory,
                 renderCount, totalRenderTime, disposeCount, faults, tiling, probe>>
\* worker i's creation promise settles: resolve(worker) on its 'init'
\* message or when the 2 s timer fires, reject(error) on an error event
SettleWorker(i, status) ==
  /\ initPc = "workers"
  /\ workerStatus[i] = "pending"
  /\ workerStatus' = [workerStatus EXCEPT ![i] = status]
  /\ FinishInitIfSettled(workerStatus')
  /\ UNCHANGED <<hardwareConcurrency, gpu, isWebGPUSupported, terminated, inbox,
                 outbox, tasks, calls, currentRenderingTasks, performanceHistory,
                 renderCount, totalRenderTime, disposeCount, faults, tiling, probe>>

\* the 'init' message of worker i arrives: resolve(worker)
WorkerAck(i) == SettleWorker(i, "fulfilled")
\* variant: a timer that only warns and leaves the promise pending
WorkerInitTimeoutMutNoResolve(i) == SettleWorker(i, "pending")
\* the 2 s timer of worker i fires before its 'init' message: resolve(worker)
WorkerInitTimeout(i) == SettleWorker(i, "fulfilled")
\* variant: an error listener that logs without rejecting, so that the
\* timer admits the worker
WorkerErrorEventMutAdmits(i) == SettleWorker(i, "fulfilled")
\* worker i raises an error event before it is admitted: reject(error)
WorkerErrorEvent(i) == SettleWorker(i, "rejected")


(***************************************************************************)
(* renderFractal.                                                          *)
(***************************************************************************)
\* variant: the chain with its first two branches exchanged
selectBackendMutWorkersFirst(fractalType, useWebGPU, useWorkers) ==
  IF useWorkers /\ Len(workerPool) > 0 THEN "workers"
  ELSE IF useWebGPU /\ isWebGPUSupported /\ gpu.isInitialized
          /\ fractalType = "mandelbrot" THEN "webgpu"
  ELSE "cpu"
\* the branch of renderFractal's if/else-if/else chain taken in this state
selectBackend(fractalType, useWebGPU, useWorkers) ==
  IF useWebGPU /\ isWebGPUSupported /\ gpu.isInitialized
     /\ fractalType = "mandelbrot" THEN "webgpu"
  ELSE IF useWorkers /\ Len(workerPool) > 0 THEN "workers"
  ELSE "cpu"

\* the values render*CPU passes to options.onProgress, as <<y, height>> for
\* y / height: one for every row y with y % 20 === 0
cpuProgress(height) ==
  [j \in 1..CeilDiv(height, CpuProgressRows) |-> <<(j - 1) * CpuProgressRows, height>>]

\* the render messages of task t for the tiles k..Len(tiles) that go to worker w
RECURSIVE MessagesFor(_, _, _, _, _, _, _, _)
MessagesFor(t, fractalType, width, height, tiles, tileWorker, w, k) ==
  IF k > Len(tiles) THEN <<>>
  ELSE (IF tileWorker[k] = w
          THEN <<[id |-> <<t, k>>, type |-> "render", fractalType |-> fractalType,
                  width |-> width, height |-> height, tile |-> tiles[k]]>>
          ELSE <<>>)
       \o MessagesFor(t, fractalType, width, height, tiles, tileWorker, w, k + 1)

\* no RenderResult
NoResult == [present |-> FALSE]

\* a render dispatched by renderFractal (the renderTask closure and the
\* locals of the render* method it runs)
NewTask(key, fractalType, width, height) ==
  [key |-> key, fractalType |-> fractalType, width |-> width, height |-> height,
   method |-> "cpu",          \* the backend whose render* method runs
   status |-> "running",      \* the promise: "running", "fulfilled", "rejected"
   phase |-> "microtask",     \* what the closure awaits: "microtask", "gpu", "tiles", "done"
   willThrow |-> FALSE,       \* the awaited render* promise is already rejected
   dispatched |-> FALSE,      \* backend work was started (scan, submit or messages)
   tiles |-> <<>>, tileWorker |-> <<>>, tileState |-> <<>>, posted |-> <<>>,
   completedTiles |-> 0,
   finalImageData |-> NewImageData(0, 0), iterationData |-> ZeroMatrix(0, 0),
   progress |-> <<>>,         \* the values passed to options.onProgress: <<num, den>>
   result |-> NoResult]       \* what the promise fulfilled with

\* variant: renderWithCPU without the default branch: every kind is scanned
cpuTaskMutNoDefault(task) ==
  [task EXCEPT !.method = "cpu", !.dispatched = TRUE,
               !.iterationData = FullIterationData(task.width, task.height),
               !.finalImageData = FullImageData(task.width, task.height),
               !.progress = cpuProgress(task.height)]
\* renderWithCPU: the switch throws for a kind without a CPU kernel; the
\* render*CPU methods have no await, so the whole scan runs inside the call
cpuTask(task) ==
  IF task.fractalType \in SupportedTypes
    THEN [task EXCEPT !.method = "cpu", !.dispatched = TRUE,
                      !.iterationData = FullIterationData(task.width, task.height),
                      !.finalImageData = FullImageData(task.width, task.height),
                      !.progress = cpuProgress(task.height)]
    ELSE [task EXCEPT !.method = "cpu", !.willThrow = TRUE]

\* renderWithWebGPU up to `await readBuffer.mapAsync`; renderMandelbrot
\* throws before any GPU call when the engine's fields are not all set
gpuTask(task) ==
  IF gpu.isInitialized /\ gpu.device /\ gpu.pipeline /\ gpu.bindGroupLayout
    THEN [task EXCEPT !.method = "webgpu", !.dispatched = TRUE, !.phase = "gpu"]
    ELSE [task EXCEPT !.method = "webgpu", !.willThrow = TRUE]

\* renderWithWorkers up to `await Promise.all(workerPromises)`
workersTask(task, tileSize, pool) ==
  LET tiles == Tiles(task.width, task.height, tileSize)
      n == Len(pool)
  IN  [task EXCEPT !.method = "workers", !.dispatched = TRUE, !.phase = "tiles",
                   !.tiles = tiles,
                   !.tileWorker = [k \in DOMAIN tiles |-> pool[workerIndex(k, n) + 1]],
                   !.tileState = [k \in DOMAIN tiles |-> "pending"],
                   !.posted = [k \in DOMAIN tiles |-> 1],
                   !.finalImageData = NewImageData(task.width, task.height),
                   !.iterationData = ZeroMatrix(task.width, task.height)]

MapPut(m, k, v) == [x \in (DOMAIN m) \cup {k} |-> IF x = k THEN v ELSE m[x]]
MapDelete(m, k) == [x \in (DOMAIN m) \ {k} |-> m[x]]

\* variant: the lookup never finding an entry
existingTaskMutNone(key) == 0
\* the lookup in currentRenderingTasks at the top of renderFractal
existingTask(key) ==
  IF key \in DOMAIN currentRenderingTasks THEN currentRenderingTasks[key] ELSE 0

\* one call of renderFractal, up to its return: what it does to the engine
renderFractal(fractalType, c, iterations, width, height, useWebGPU, useWorkers, tileSize) ==
  /\ Len(calls) < MaxCalls
  /\ LET key == renderKey(fractalType, c, iterations, width, height)
         concurrent == {u \in DOMAIN tasks :
                          tasks[u].key = key /\ tasks[u].status = "running"}
         existing == existingTask(key)
         t == Len(tasks) + 1
         method == selectBackend(fractalType, useWebGPU, useWorkers)
         base == NewTask(key, fractalType, width, height)
         task == CASE method = "webgpu" -> gpuTask(base)
                   [] method = "workers" -> workersTask(base, tileSize, workerPool)
                   [] OTHER -> cpuTask(base)
         \* what the call saw, for the record: the tasks of the same key
         \* still running, whether the GPU was requested, whether it was
         \* requested with the GPU engine initialised, and whether the
         \* worker pool was requested while it had a member
         seen == [key |-> key, concurrent |-> concurrent,
                  gpuRequested |-> useWebGPU,
                  gpuUsable |-> useWebGPU /\ gpu.isInitialized,
                  poolUsable |-> useWorkers /\ Len(workerPool) > 0]
     IN  IF existing # 0
           THEN /\ calls' = Append(calls, [task |-> existing, fresh |-> FALSE,
                                           seen |-> seen])
                /\ UNCHANGED <<tasks, inbox, currentRenderingTasks>>
           ELSE /\ calls' = Append(calls, [task |-> t, fresh |-> TRUE, seen |-> seen])
                /\ tasks' = Append(tasks, task)
                /\ inbox' = [w \in WorkerIds |->
                               inbox[w] \o MessagesFor(t, fractalType, width, height,
                                                       task.tiles, task.tileWorker, w, 1)]
                /\ currentRenderingTasks' = MapPut(currentRenderingTasks, key, t)
  /\ UNCHANGED <<hardwareConcurrency, initPc, gpu, isWebGPUSupported, isInitialized,
                 workerStatus, workerPool, terminated, outbox, performanceHistory,
                 renderCount, totalRenderTime, disposeCount, faults, tiling>>

\* a renderFractal call of one of the engine's callers
RenderFractal(fractalType, c, iterations, width, height, useWebGPU, useWorkers, tileSize) ==
  /\ renderFractal(fractalType, c, iterations, width, height, useWebGPU, useWorkers,
                   tileSize)
  /\ UNCHANGED probe

\* variant: the newest entry is dropped when the history is full
updatePerformanceStatsMutDropsNewest(renderTime) ==
  /\ performanceHistory' =
       IF Len(performanceHistory) >= HistoryCapacity THEN performanceHistory
       ELSE Append(performanceHistory, renderTime)
  /\ renderCount' = renderCount + 1
  /\ totalRenderTime' = totalRenderTime + renderTime
\* updatePerformanceStats
updatePerformanceStats(renderTime) ==
  /\ performanceHistory' =
       LET pushed == Append(performanceHistory, renderTime)
       IN  IF Len(pushed) > HistoryCapacity THEN Tail(pushed) ELSE pushed
  /\ renderCount' = renderCount + 1
  /\ totalRenderTime' = totalRenderTime + renderTime

\* variant: the closure without its `finally`: the key stays in the map
deleteKeyMutKeep(key) == currentRenderingTasks
\* the `finally` of the renderTask closure
deleteKey(key) == MapDelete(currentRenderingTasks, key)

\* the closure of task t resumes after its await with a result: the stats
\* are updated, the promise fulfils, the `finally` removes the key
Fulfil(t, task, renderTime) ==
  /\ tasks' = [tasks EXCEPT ![t] =
                [task EXCEPT !.status = "fulfilled", !.phase = "done",
                             !.result = [present |-> TRUE,
                                         imageData |-> task.finalImageData,
                                         iterationData |-> task.iterationData,
                                         renderTime |-> renderTime,
                                         method |-> task.method]]]
  /\ updatePerformanceStats(renderTime)
  /\ currentRenderingTasks' = deleteKey(task.key)

\* variant: the stats updated in the `finally`, so also for a render that rejects
RejectMutCountsRender(t, task) ==
  /\ tasks' = [tasks EXCEPT ![t] = [task EXCEPT !.status = "rejected", !.phase = "done"]]
  /\ currentRenderingTasks' = deleteKey(task.key)
  /\ updatePerformanceStats(0)
\* the closure of task t resumes after its await with an exception: only
\* the `finally` runs, the promise rejects
Reject(t, task) ==
  /\ tasks' = [tasks EXCEPT ![t] = [task EXCEPT !.status = "rejected", !.phase = "done"]]
  /\ currentRenderingTasks' = deleteKey(task.key)
  /\ UNCHANGED <<performanceHistory, renderCount, totalRenderTime>>

\* the microtasks that follow a call whose render* promise settled inside
\* the call (CPU scan done or thrown, renderMandelbrot thrown)
SettleTask(t, renderTime) ==
  /\ t \in DOMAIN tasks
  /\ tasks[t].status = "running"
  /\ tasks[t].phase = "microtask"
  /\ IF tasks[t].willThrow THEN Reject(t, tasks[t]) /\ renderTime = 1
                           ELSE Fulfil(t, tasks[t], renderTime)
  /\ UNCHANGED <<hardwareConcurrency, initPc, gpu, isWebGPUSupported, isInitialized,
                 workerStatus, workerPool, terminated, inbox, outbox, calls,
                 disposeCount, faults, tiling, probe>>

\* readBuffer.mapAsync settles for task t; it can only resolve while the
\* device has not been destroyed.  The read-back, applyPalette and the rest
\* of the closure follow without another await
GpuMapSettled(t, ok, renderTime) ==
  /\ t \in DOMAIN tasks
  /\ tasks[t].status = "running"
  /\ tasks[t].phase = "gpu"
  /\ IF ok
       THEN /\ gpu.device
            /\ Fulfil(t, [tasks[t] EXCEPT
                            !.iterationData = FullIterationData(tasks[t].width, tasks[t].height),
                            !.finalImageData = FullImageData(tasks[t].width, tasks[t].height)],
                      renderTime)
       ELSE Reject(t, tasks[t]) /\ renderTime = 1
  /\ UNCHANGED <<hardwareConcurrency, initPc, gpu, isWebGPUSupported, isInitialized,
                 workerStatus, workerPool, terminated, inbox, outbox, calls,
                 disposeCount, faults, tiling, probe>>


(***************************************************************************)
(* The worker (fractal-worker.ts) and the engine's message listeners.      *)
(* The worker is the message listener at the end of fractal-worker.ts with *)
(* its renderTile function: the one that takes the RenderMessage payload   *)
(* renderTileWithWorker posts and replies with progress, complete and      *)
(* error messages.                                                         *)
(***************************************************************************)
\* the progress messages renderTile posts for a tile: one for every row y
\* with y % 10 === 0
workerProgress(id, tileHeight) ==
  [j \in 1..CeilDiv(tileHeight, WorkerProgressRows) |->
     [id |-> id, type |-> "progress",
      payload |-> <<(j - 1) * WorkerProgressRows, tileHeight>>]]

\* variant: a handler without its try/catch: an exception of renderTile
\* ends the handler without a reply
workerRepliesMutNoCatch(m, fault) ==
  IF m.type # "render"
    THEN <<[id |-> m.id, type |-> "error", payload |-> "error"]>>
  ELSE IF m.fractalType \notin SupportedTypes \/ fault
    THEN <<>>
    ELSE workerProgress(m.id, m.tile.tileHeight)
         \o <<[id |-> m.id, type |-> "complete",
               payload |-> renderTile(m.width, m.height, m.tile)]>>
\* what the worker's message handler posts for one message: for a render
\* message the progress messages and the complete message of renderTile,
\* or, when renderTile throws (a kind without a kernel throws at the first
\* pixel; `fault` is any other exception before the first row), one error
\* message from the catch block; for a message of another type the error
\* message of the default branch
workerReplies(m, fault) ==
  IF m.type # "render"
    THEN <<[id |-> m.id, type |-> "error", payload |-> "error"]>>
  ELSE IF m.fractalType \notin SupportedTypes \/ fault
    THEN <<[id |-> m.id, type |-> "error", payload |-> "error"]>>
    ELSE workerProgress(m.id, m.tile.tileHeight)
         \o <<[id |-> m.id, type |-> "complete",
               payload |-> renderTile(m.width, m.height, m.tile)]>>

\* worker w handles the next message of its queue
WorkerHandle(w, fault) ==
  /\ w \notin terminated
  /\ inbox[w] # <<>>
  /\ fault => /\ faults < MaxFaults
              /\ Head(inbox[w]).type = "render"
              /\ Head(inbox[w]).fractalType \in SupportedTypes
  /\ faults' = IF fault THEN faults + 1 ELSE faults
  /\ inbox' = [inbox EXCEPT ![w] = Tail(@)]
  /\ outbox' = [outbox EXCEPT ![w] = @ \o workerReplies(Head(inbox[w]), fault)]
  /\ UNCHANGED <<hardwareConcurrency, initPc, gpu, isWebGPUSupported, isInitialized,
                 workerStatus, workerPool, terminated, tasks, calls,
                 currentRenderingTasks, performanceHistory, renderCount,
                 totalRenderTime, disposeCount, tiling, probe>>

\* variant: the callback reports the index of its tile
tileLandedMutTileIndex(task, k, payload) ==
  LET tile == task.tiles[k]
      comp == compositeTile(task.finalImageData, task.iterationData, payload,
                            tile.tileX, tile.tileY, tile.tileWidth, tile.tileHeight)
  IN  [task EXCEPT !.tileState[k] = "done",
                   !.finalImageData = comp.imageData,
                   !.iterationData = comp.iterationData,
                   !.completedTiles = @ + 1,
                   !.progress = Append(@, <<k, Len(task.tiles)>>)]
\* the .then callback of renderWithWorkers for tile k of a task
tileLanded(task, k, payload) ==
  LET tile == task.tiles[k]
      comp == compositeTile(task.finalImageData, task.iterationData, payload,
                            tile.tileX, tile.tileY, tile.tileWidth, tile.tileHeight)
      completed == task.completedTiles + 1
  IN  [task EXCEPT !.tileState[k] = "done",
                   !.finalImageData = comp.imageData,
                   !.iterationData = comp.iterationData,
                   !.completedTiles = completed,
                   !.progress = Append(@, <<completed, Len(task.tiles)>>)]

\* variant: Promise.allSettled in place of Promise.all: the render waits for every
\* tile and fulfils whatever their outcomes
promiseAllMutAllSettled(tileState) ==
  IF \A k \in DOMAIN tileState : tileState[k] # "pending" THEN "fulfilled" ELSE "pending"
\* `await Promise.all(workerPromises)` over the tiles' promises: rejected as
\* soon as one tile is rejected, fulfilled once every tile is fulfilled
promiseAll(tileState) ==
  IF \E k \in DOMAIN tileState : tileState[k] = "failed" THEN "rejected"
  ELSE IF \A k \in DOMAIN tileState : tileState[k] = "done" THEN "fulfilled"
  ELSE "pending"

\* the messages of a queue after its leading progress messages
RECURSIVE SkipProgress(_)
SkipProgress(q) ==
  IF q # <<>> /\ Head(q).type = "progress" THEN SkipProgress(Tail(q)) ELSE q

\* the handleMessage listeners registered on worker w: one per tile request
\* sent to w, from addEventListener until the listener removes itself when
\* it settles its promise; the pair <<task, tile>> stands for the messageId
\* drawn by crypto.randomUUID() for that request
Listeners(w) ==
  UNION {{<<t, k>> : k \in {j \in DOMAIN tasks[t].tiles :
                               /\ tasks[t].tileWorker[j] = w
                               /\ tasks[t].tileState[j] = "pending"}} :
         t \in DOMAIN tasks}

\* "if (message.id !== messageId) return": the test that lets a listener
\* act on a message
listenerMatchesMutRenderOnly(messageId, msg) == msg.id[1] = messageId[1]
listenerMatches(messageId, msg) == msg.id = messageId

\* the listeners of tiles k.. of ks act on msg in registration order: a
\* complete message resolves the tile's promise, whose continuation composites
\* the message's data at the region of the listener's own request; an error
\* message rejects it
RECURSIVE settleTiles(_, _, _, _)
settleTiles(task, k, ks, msg) ==
  IF k > Len(task.tiles) THEN task
  ELSE settleTiles(IF k \notin ks THEN task
                   ELSE IF msg.type = "complete"
                          THEN tileLanded(task, k, msg.payload)
                          ELSE [task EXCEPT !.tileState[k] = "failed"],
                   k + 1, ks, msg)

\* the engine handles the next messages of worker w, up to and including
\* the first that is no progress message: every handleMessage listener still
\* registered on w sees each of them; a progress message matches no branch
\* of any listener; the listeners whose messageId equals the id of a complete
\* or error message settle their tiles, and the promise chain runs to the
\* end; a message no listener matches is dropped
DeliverMessage(w, renderTime) ==
  /\ w \notin terminated
  /\ outbox[w] # <<>>
  /\ outbox' = [outbox EXCEPT ![w] = Tail(SkipProgress(@))]
  /\ LET msg == Head(SkipProgress(outbox[w]))
         targets == {tk \in Listeners(w) : listenerMatches(tk, msg)}
     IN  IF targets = {}
           THEN /\ renderTime = 1
                /\ UNCHANGED <<tasks, currentRenderingTasks, performanceHistory,
                               renderCount, totalRenderTime>>
           ELSE LET t == (CHOOSE tk \in targets : TRUE)[1]
                    task == tasks[t]
                    settled == settleTiles(task, 1, {tk[2] : tk \in targets}, msg)
                    outcome == promiseAll(settled.tileState)
                IN  IF task.status = "running" /\ outcome = "fulfilled"
                      THEN Fulfil(t, settled, renderTime)
                      ELSE /\ renderTime = 1
                           /\ IF task.status = "running" /\ outcome = "rejected"
                                THEN Reject(t, settled)
                                ELSE /\ tasks' = [tasks EXCEPT ![t] = settled]
                                     /\ UNCHANGED <<currentRenderingTasks, performanceHistory,
                                                    renderCount, totalRenderTime>>
  /\ UNCHANGED <<hardwareConcurrency, initPc, gpu, isWebGPUSupported, isInitialized,
                 workerStatus, workerPool, terminated, inbox, calls, disposeCount,
                 faults, tiling, probe>>

(***************************************************************************)
(* dispose (FractalEngine.dispose and WebGPUEngine.dispose).               *)
(***************************************************************************)
\* the fields and resources dispose() assigns, with their current values
EngineResources ==
  [gpu |-> gpu, terminated |-> terminated, workerPool |-> workerPool,
   inbox |-> inbox, outbox |-> outbox, performanceHistory |-> performanceHistory,
   renderCount |-> renderCount, totalRenderTime |-> totalRenderTime]

\* variant: a dispose that terminates and removes only the first member of
\* the pool
DisposeEffectMutFirstOnly ==
  LET gone == IF workerPool = <<>> THEN {} ELSE {Head(workerPool)}
  IN  [gpu |-> [gpu EXCEPT !.adapter = FALSE, !.device = FALSE, !.pipeline = FALSE,
                           !.bindGroupLayout = FALSE, !.isInitialized = FALSE],
       terminated |-> terminated \cup gone,
       workerPool |-> IF workerPool = <<>> THEN <<>> ELSE Tail(workerPool),
       inbox |-> [w \in WorkerIds |-> IF w \in terminated \cup gone THEN <<>> ELSE inbox[w]],
       outbox |-> [w \in WorkerIds |-> IF w \in terminated \cup gone THEN <<>> ELSE outbox[w]],
       performanceHistory |-> <<>>, renderCount |-> 0, totalRenderTime |-> 0]
\* the values dispose() gives them: WebGPUEngine.dispose destroys the device
\* and clears its fields; every member of the pool is terminated (a
\* terminated worker handles no message and posts none) and the pool is
\* emptied; the statistics are reset
DisposeEffect ==
  LET gone == Range(workerPool)
  IN  [gpu |-> [gpu EXCEPT !.adapter = FALSE, !.device = FALSE, !.pipeline = FALSE,
                           !.bindGroupLayout = FALSE, !.isInitialized = FALSE],
       terminated |-> terminated \cup gone,
       workerPool |-> <<>>,
       inbox |-> [w \in WorkerIds |-> IF w \in terminated \cup gone THEN <<>> ELSE inbox[w]],
       outbox |-> [w \in WorkerIds |-> IF w \in terminated \cup gone THEN <<>> ELSE outbox[w]],
       performanceHistory |-> <<>>, renderCount |-> 0, totalRenderTime |-> 0]

\* one call of dispose()
Dispose ==
  /\ disposeCount < MaxDisposes
  /\ disposeCount' = disposeCount + 1
  /\ gpu' = DisposeEffect.gpu
  /\ terminated' = DisposeEffect.terminated
  /\ workerPool' = DisposeEffect.workerPool
  /\ inbox' = DisposeEffect.inbox
  /\ outbox' = DisposeEffect.outbox
  /\ performanceHistory' = DisposeEffect.performanceHistory
  /\ renderCount' = DisposeEffect.renderCount
  /\ totalRenderTime' = DisposeEffect.totalRenderTime
  /\ UNCHANGED <<hardwareConcurrency, initPc, isWebGPUSupported, isInitialized,
                 workerStatus, tasks, calls, currentRenderingTasks, faults, tiling, probe>>

(***************************************************************************)
(* The engine.                                                             *)
(***************************************************************************)
Next ==
  \/ \E ok \in BOOLEAN, thrown \in SUBSET WorkerIds : GpuAdapterResolved(ok, thrown)
  \/ \E outcome \in {"ok", "deviceError", "pipelineError"}, thrown \in SUBSET WorkerIds :
       GpuDeviceResolved(outcome, thrown)
  \/ \E i \in WorkerIds : WorkerAck(i)
  \/ \E i \in WorkerIds : WorkerInitTimeout(i)
  \/ \E i \in WorkerIds : WorkerErrorEvent(i)
  \/ \E fractalType \in RequestKinds, iterations \in IterationCaps,
        width \in {CanvasWidth}, height \in {CanvasHeight},
        useWebGPU \in BOOLEAN, useWorkers \in BOOLEAN, tileSize \in 1..MaxTileSize :
       \E cr \in (IF fractalType = "julia" THEN JuliaCReals ELSE {0}) :
         RenderFractal(fractalType, [real |-> cr, imag |-> 0], iterations,
                       width, height, useWebGPU, useWorkers, tileSize)
  \/ \E t \in DOMAIN tasks, renderTime \in 1..MaxRenderTime : SettleTask(t, renderTime)
  \/ \E t \in DOMAIN tasks, ok \in BOOLEAN, renderTime \in 1..MaxRenderTime :
       GpuMapSettled(t, ok, renderTime)
  \/ \E w \in WorkerIds, fault \in BOOLEAN : WorkerHandle(w, fault)
  \/ \E w \in WorkerIds, renderTime \in 1..MaxRenderTime : DeliverMessage(w, renderTime)
  \/ Dispose

Spec == Init /\ [][Next]_vars

(***************************************************************************)
(* The initialisation in isolation, for every hardwareConcurrency from 0   *)
(* (the property is missing: four workers) to MaxCores, with dispose()     *)
(* calls at any moment.  The 2 s timer of a worker that stays silent does  *)
(* fire, and the promises of requestAdapter and requestDevice do settle;   *)
(* nothing obliges a worker to acknowledge or to fail.                     *)
(***************************************************************************)
InitBoot ==
  /\ \E cores \in 0..MaxCores : EngineInit(cores)
  /\ tiling = NoTiling
  /\ probe = NoProbe

GpuSettles ==
  \/ \E ok \in BOOLEAN, thrown \in SUBSET WorkerIds : GpuAdapterResolved(ok, thrown)
  \/ \E outcome \in {"ok", "deviceError", "pipelineError"}, thrown \in SUBSET WorkerIds :
       GpuDeviceResolved(outcome, thrown)

TimerFires == \E i \in WorkerIds : WorkerInitTimeout(i)

NextBoot ==
  \/ GpuSettles
  \/ TimerFires
  \/ \E i \in WorkerIds : WorkerAck(i)
  \/ \E i \in WorkerIds : WorkerErrorEvent(i)
  \/ Dispose

SpecBoot ==
  InitBoot /\ [][NextBoot]_vars /\ WF_vars(GpuSettles) /\ WF_vars(TimerFires)


(***************************************************************************)
(* One worker render in isolation: the tiles of renderWithWorkers for a    *)
(* width, a height and a tile edge, and the .then callbacks of the tiles   *)
(* run in every order.                                                     *)
(***************************************************************************)
TilingMaxWidth == 3
TilingMaxHeight == 3
TilingMaxTileSize == 3
TilingMaxPool == 3

\* the pool is workers 1..poolSize, in the order of this.workerPool
InitTiling ==
  /\ EngineInit(1)
  /\ \E width \in 1..TilingMaxWidth, height \in 1..TilingMaxHeight,
        tileSize \in 1..TilingMaxTileSize, poolSize \in 1..TilingMaxPool :
       tiling = [phase |-> "input", width |-> width, height |-> height,
                 tileSize |-> tileSize, pool |-> [i \in 1..poolSize |-> i]]
  /\ probe = NoProbe

\* renderWithWorkers up to its await: the buffers are allocated and the
\* tiles are generated
StartTiling ==
  /\ tiling.phase = "input"
  /\ tiling' = workersTask(
                  NewTask(renderKey("mandelbrot", NoC, 3, tiling.width, tiling.height),
                          "mandelbrot", tiling.width, tiling.height),
                  tiling.tileSize, tiling.pool)
                @@ [pool |-> tiling.pool, tileSize |-> tiling.tileSize]
  /\ UNCHANGED <<engineVars, probe>>

\* the completion of tile k arrives: its .then callback runs with the
\* payload the worker computed for the tile
TileCompleted(k) ==
  /\ tiling.phase = "tiles"
  /\ k \in DOMAIN tiling.tiles
  /\ tiling.tileState[k] = "pending"
  /\ tiling' = tileLanded(tiling, k, renderTile(tiling.width, tiling.height, tiling.tiles[k]))
  /\ UNCHANGED <<engineVars, probe>>

NextTiling ==
  \/ StartTiling
  \/ \E k \in 1..(TilingMaxWidth * TilingMaxHeight) : TileCompleted(k)

SpecTiling == InitTiling /\ [][NextTiling]_vars


(***************************************************************************)
(* The metrics in isolation: a sequence of completed renders longer than   *)
(* the history.  Render m takes elapsed(m) ms: pairwise distinct times     *)
(* for 101 consecutive renders, neither increasing nor decreasing.         *)
(***************************************************************************)
\* number of completed renders beyond the capacity of the history
MaxOverflow == 3

elapsed(m) == ((m * 37) % 101) + 1

InitHistory ==
  /\ EngineInit(1)
  /\ tiling = NoTiling
  /\ probe = [phase |-> "history", completed |-> 0]

\* a render fulfils: the renderTask closure calls updatePerformanceStats
\* with the elapsed time
RenderCompleted ==
  /\ probe.completed < HistoryCapacity + MaxOverflow
  /\ probe' = [probe EXCEPT !.completed = @ + 1]
  /\ updatePerformanceStats(elapsed(probe.completed + 1))
  /\ UNCHANGED <<hardwareConcurrency, initPc, gpu, isWebGPUSupported, isInitialized,
                 workerStatus, workerPool, terminated, inbox, outbox, tasks, calls,
                 currentRenderingTasks, disposeCount, faults, tiling>>

NextHistory == RenderCompleted

SpecHistory == InitHistory /\ [][NextHistory]_vars

(***************************************************************************)
(* A worker in isolation: it receives render messages for tiles of one     *)
(* column, high enough for one, two or three progress messages, and        *)
(* messages of a type it does not know.                                    *)
(***************************************************************************)
\* number of messages posted to the worker
MaxPosts == 2

\* the heights of the tiles: 1, 11 and 21 rows
ProbeTileHeights == {1, WorkerProgressRows + 1, 2 * WorkerProgressRows + 1}

InitWorker ==
  /\ EngineInit(1)
  /\ tiling = NoTiling
  /\ probe = [phase |-> "worker", posted |-> 0]

\* worker.postMessage(m): the n-th message posted carries the id <<0, n>>
PostToWorker(m) ==
  /\ probe.phase = "worker"
  /\ probe.posted < MaxPosts
  /\ m.id = <<0, probe.posted + 1>>
  /\ probe' = [probe EXCEPT !.posted = @ + 1]
  /\ inbox' = [inbox EXCEPT ![1] = Append(@, m)]
  /\ UNCHANGED <<hardwareConcurrency, initPc, gpu, isWebGPUSupported, isInitialized,
                 workerStatus, workerPool, terminated, outbox, tasks, calls,
                 currentRenderingTasks, performanceHistory, renderCount,
                 totalRenderTime, disposeCount, faults, tiling>>

PostRender ==
  \E n \in 1..MaxPosts, fractalType \in RequestKinds, h \in ProbeTileHeights :
    PostToWorker([id |-> <<0, n>>, type |-> "render", fractalType |-> fractalType,
                  width |-> 1, height |-> h,
                  tile |-> [tileX |-> 0, tileY |-> 0, tileWidth |-> 1, tileHeight |-> h]])

PostOther == \E n \in 1..MaxPosts : PostToWorker([id |-> <<0, n>>, type |-> "cancel"])

NextWorker ==
  \/ PostRender
  \/ PostOther
  \/ \E fault \in BOOLEAN : WorkerHandle(1, fault)

SpecWorker == InitWorker /\ [][NextWorker]_vars

(***************************************************************************)
(* Properties of the tiling and of the compositing (SpecTiling).           *)
(***************************************************************************)
InTile(tile, x, y) ==
  /\ tile.tileX <= x /\ x < tile.tileX + tile.tileWidth
  /\ tile.tileY <= y /\ y < tile.tileY + tile.tileHeight

\* C3: the tiles generated by renderWithWorkers partition the target
\* rectangle: every pixel (x, y) of the width x height rectangle lies in
\* exactly one tile, and no tile is empty or extends outside the rectangle.
TilesPartitionTarget ==
  tiling.phase = "tiles" =>
  /\ \A x \in 0..(tiling.width - 1), y \in 0..(tiling.height - 1) :
       Cardinality({k \in DOMAIN tiling.tiles : InTile(tiling.tiles[k], x, y)}) = 1
  /\ \A k \in DOMAIN tiling.tiles :
       LET tile == tiling.tiles[k]
       IN  /\ tile.tileX >= 0 /\ tile.tileY >= 0
           /\ tile.tileWidth >= 1 /\ tile.tileHeight >= 1
           /\ tile.tileX + tile.tileWidth <= tiling.width
           /\ tile.tileY + tile.tileHeight <= tiling.height

\* a render of several tiles in both directions whose last column and last
\* row of tiles are clipped by the rectangle
TilesClippedWitness ==
  /\ tiling.phase = "tiles"
  /\ Len(tiling.tiles) >= 4
  /\ \E k \in DOMAIN tiling.tiles :
       /\ tiling.tiles[k].tileX > 0 /\ tiling.tiles[k].tileY > 0
       /\ tiling.tiles[k].tileWidth < tiling.tiles[1].tileWidth
       /\ tiling.tiles[k].tileHeight < tiling.tiles[1].tileHeight

\* the tiles whose completion has been composited
Landed(task) == {k \in DOMAIN task.tiles : task.tileState[k] = "done"}

\* C4: whatever the order of the tile completions, each completion writes
\* only the cells of its own tile: at every moment a cell of the iteration
\* matrix and the four bytes of a pixel hold the value computed for that
\* pixel if a tile containing it has landed and their initial zero
\* otherwise; so once all tiles have landed the buffers are those of a full
\* scan, the same for every arrival order.
CompositeOrderIndependent ==
  tiling.phase = "tiles" =>
  LET w == tiling.width
      h == tiling.height
      covered(x, y) == \E k \in Landed(tiling) : InTile(tiling.tiles[k], x, y)
  IN  /\ DOMAIN tiling.iterationData = 0..(h - 1)
      /\ DOMAIN tiling.finalImageData.data = 0..(w * h * Channels - 1)
      /\ \A y \in 0..(h - 1) :
           /\ DOMAIN tiling.iterationData[y] = 0..(w - 1)
           /\ \A x \in 0..(w - 1) :
                /\ tiling.iterationData[y][x] =
                     IF covered(x, y) THEN colorValueAt(w, x, y) ELSE 0
                /\ \A ch \in 0..(Channels - 1) :
                     tiling.finalImageData.data[(y * w + x) * Channels + ch] =
                       IF covered(x, y) THEN colorByteAt(w, x, y, ch) ELSE 0
      /\ Landed(tiling) = DOMAIN tiling.tiles =>
           /\ tiling.iterationData = FullIterationData(w, h)
           /\ tiling.finalImageData = FullImageData(w, h)

\* all tiles of a render of at least four tiles have landed
AllTilesLandedWitness ==
  /\ tiling.phase = "tiles"
  /\ Len(tiling.tiles) >= 4
  /\ Landed(tiling) = DOMAIN tiling.tiles
  /\ tiling.completedTiles = Len(tiling.tiles)


(***************************************************************************)
(* Properties of the engine (Spec).                                        *)
(***************************************************************************)
Running(t) == tasks[t].status = "running"

\* C1: a renderFractal call made while a render of the same fingerprint is
\* still unsettled starts no second dispatch: it returns the promise of the
\* render in flight, so both callers get the same result or the same
\* rejection; no two renders of one fingerprint run at once, and every
\* dispatch belongs to a call that found no render of its fingerprint running.
DedupSharesInFlightRender ==
  /\ \A i \in DOMAIN calls :
       calls[i].seen.concurrent # {} =>
         /\ ~calls[i].fresh
         /\ calls[i].seen.concurrent = {calls[i].task}
         /\ \E j \in 1..(i - 1) : calls[j].fresh /\ calls[j].task = calls[i].task
  /\ \A t, u \in DOMAIN tasks :
       Running(t) /\ Running(u) /\ tasks[t].key = tasks[u].key => t = u
  /\ Len(tasks) = Cardinality({i \in DOMAIN calls : calls[i].fresh})

\* a second call that joined a worker render in flight, which then fulfilled
\* for both callers
DedupJoinedWitness ==
  \E i, j \in DOMAIN calls :
    /\ i < j /\ calls[i].fresh /\ ~calls[j].fresh
    /\ calls[j].seen.concurrent = {calls[i].task}
    /\ tasks[calls[i].task].method = "workers"
    /\ tasks[calls[i].task].result.present

\* C2: the in-flight map holds a fingerprint exactly while a render of that
\* fingerprint is running, and maps it to that render; the entry is removed
\* when the render settles, fulfilled or rejected, so a call that comes
\* after the settlement starts a fresh dispatch.
InFlightMapTracksRunning ==
  /\ \A key \in DOMAIN currentRenderingTasks :
       LET t == currentRenderingTasks[key]
       IN  t \in DOMAIN tasks /\ tasks[t].key = key /\ Running(t)
  /\ \A t \in DOMAIN tasks :
       Running(t) => /\ tasks[t].key \in DOMAIN currentRenderingTasks
                     /\ currentRenderingTasks[tasks[t].key] = t
  /\ \A i \in DOMAIN calls : calls[i].seen.concurrent = {} => calls[i].fresh

\* a render rejected, and a later call with the same fingerprint was
\* dispatched afresh
FreshAfterSettleWitness ==
  \E i, j \in DOMAIN calls :
    /\ i < j /\ calls[i].fresh /\ calls[j].fresh
    /\ calls[i].seen.key = calls[j].seen.key
    /\ tasks[calls[i].task].status = "rejected"
    /\ tasks[calls[j].task].dispatched
    /\ currentRenderingTasks = EmptyMap

\* C5: on the worker backend an error reply for any tile rejects the
\* render: the failed tile is never posted again, and the caller gets no
\* result, so no partly filled buffers.
TileErrorRejectsRender ==
  \A t \in DOMAIN tasks :
    tasks[t].method = "workers" =>
      /\ \A k \in DOMAIN tasks[t].tiles : tasks[t].posted[k] = 1
      /\ (\E k \in DOMAIN tasks[t].tiles : tasks[t].tileState[k] = "failed") =>
           /\ tasks[t].status = "rejected"
           /\ tasks[t].result = NoResult
           /\ \A w \in DOMAIN inbox : \A n \in DOMAIN inbox[w] :
                \A k \in DOMAIN tasks[t].tiles :
                  tasks[t].tileState[k] = "failed" => inbox[w][n].id # <<t, k>>

\* a render of two tiles of which one failed and the other landed
TileErrorWitness ==
  \E t \in DOMAIN tasks :
    /\ tasks[t].method = "workers"
    /\ \E k, l \in DOMAIN tasks[t].tiles :
         tasks[t].tileState[k] = "failed" /\ tasks[t].tileState[l] = "done"
    /\ tasks[t].status = "rejected"

\* C6: a step in which a render rejects leaves the engine as it was, apart
\* from removing the render's fingerprint from the in-flight map: the
\* worker pool, the performance history, renderCount and totalRenderTime,
\* the GPU engine and the initialisation flags are unchanged; afterwards
\* the fingerprint is free for a following call.
RejectKeepsEngineState ==
  [][\A t \in DOMAIN tasks :
       Running(t) /\ tasks'[t].status = "rejected" =>
         /\ workerPool' = workerPool
         /\ performanceHistory' = performanceHistory
         /\ renderCount' = renderCount
         /\ totalRenderTime' = totalRenderTime
         /\ terminated' = terminated
         /\ gpu' = gpu
         /\ isWebGPUSupported' = isWebGPUSupported
         /\ isInitialized' = isInitialized
         /\ currentRenderingTasks' = MapDelete(currentRenderingTasks, tasks[t].key)
         /\ tasks[t].key \notin DOMAIN currentRenderingTasks']_vars

\* a render rejected and the following call, with the same fingerprint, was
\* dispatched and fulfilled
SucceedsAfterRejectWitness ==
  \E i, j \in DOMAIN calls :
    /\ i < j /\ calls[i].fresh /\ calls[j].fresh
    /\ calls[i].seen.key = calls[j].seen.key
    /\ tasks[calls[i].task].status = "rejected"
    /\ tasks[calls[j].task].result.present
    /\ renderCount = 1

\* the backend the priority rule names for a call: the GPU if it was
\* requested with the GPU engine initialised and the kind is mandelbrot,
\* otherwise the worker pool if it was requested and not empty, otherwise
\* the single-threaded CPU
PriorityBackend(i) ==
  IF calls[i].seen.gpuUsable /\ calls[i].seen.key[1] = "mandelbrot" THEN "webgpu"
  ELSE IF calls[i].seen.poolUsable THEN "workers"
  ELSE "cpu"

\* C7: the backend of every dispatch is the one the priority rule names
\* for the options of the call and the engine state at the call, whatever
\* the earlier calls were, and the method of the result names that backend.
BackendFollowsPriority ==
  \A i \in DOMAIN calls :
    calls[i].fresh =>
      /\ tasks[calls[i].task].method = PriorityBackend(i)
      /\ tasks[calls[i].task].result.present =>
           tasks[calls[i].task].result.method = PriorityBackend(i)

\* a mandelbrot render fulfilled on the GPU and a later mandelbrot render
\* fulfilled on another backend
BackendChangesWitness ==
  \E i, j \in DOMAIN calls :
    /\ i < j /\ calls[i].fresh /\ calls[j].fresh
    /\ calls[i].seen.key[1] = "mandelbrot" /\ calls[j].seen.key[1] = "mandelbrot"
    /\ tasks[calls[i].task].result.present
    /\ tasks[calls[i].task].result.method = "webgpu"
    /\ tasks[calls[j].task].result.present
    /\ tasks[calls[j].task].result.method # "webgpu"

\* the call asks for a kind on a backend that has no kernel for it: the GPU
\* for a kind other than mandelbrot, or any backend for a kind without kernel
NoKernelRequested(i) ==
  \/ calls[i].seen.gpuRequested /\ calls[i].seen.key[1] # "mandelbrot"
  \/ calls[i].seen.key[1] \notin SupportedTypes

ProgressEndsAtOne ==
  \A t \in DOMAIN tasks :
    LET p == tasks[t].progress
    IN  /\ \A n \in DOMAIN p : 0 <= p[n][1] /\ p[n][1] <= p[n][2] /\ p[n][2] > 0
        /\ \A n \in 1..(Len(p) - 1) : p[n][1] * p[n + 1][2] <= p[n + 1][1] * p[n][2]
        /\ tasks[t].result.present /\ p # <<>> => p[Len(p)][1] = p[Len(p)][2]

\* C10: the engine is initialised only when WebGPUEngine.initialize has
\* finished, with or without success, and every worker creation promise has
\* settled, and initializeAsync has returned; once initialised it never
\* goes back to not initialised, dispose included.
ReadyOnlyAfterInit ==
  /\ [](isInitialized =>
          /\ initPc = "done"
          /\ gpu.pc \in {"done", "failed"}
          /\ \A i \in WorkerIds : workerStatus[i] \in {"fulfilled", "rejected"})
  /\ [](initPc = "done" => isInitialized)
  /\ [][isInitialized => isInitialized']_vars

\* the engine is initialised, after a failed GPU initialisation and with
\* one worker admitted and one rejected, and has been disposed
ReadyWitness ==
  /\ isInitialized
  /\ gpu.pc = "failed"
  /\ \E i, j \in WorkerIds : workerStatus[i] = "fulfilled" /\ workerStatus[j] = "rejected"
  /\ disposeCount > 0


(***************************************************************************)
(* Properties of the initialisation (SpecBoot).                            *)
(***************************************************************************)
\* C11: initialisation always completes and never rejects: for every
\* outcome of the GPU initialisation and of each worker, the engine
\* eventually is initialised (initializeAsync has returned, so
\* waitForInitialization resolves); then isWebGPUSupported is false if the
\* GPU initialisation failed, and no worker whose creation failed is in
\* the pool.
InitAlwaysCompletes ==
  /\ <>isInitialized
  /\ [](isInitialized =>
          /\ initPc = "done"
          /\ gpu.pc = "failed" => ~isWebGPUSupported
          /\ \A i \in WorkerIds :
               workerStatus[i] = "rejected" => i \notin Range(workerPool))

\* initialisation completed after a failed GPU initialisation, with a
\* failed worker and an admitted one
InitDegradedWitness ==
  /\ isInitialized
  /\ gpu.pc = "failed" /\ ~isWebGPUSupported
  /\ \E i, j \in WorkerIds :
       /\ workerStatus[i] = "rejected" /\ i \notin Range(workerPool)
       /\ j \in Range(workerPool)


DisposeIdempotent ==
  /\ [][Dispose => DisposeEffect' = EngineResources']_vars
  /\ [](disposeCount < MaxDisposes => ENABLED Dispose)

\* dispose() was called during a worker render, with tile messages queued
DisposeDuringRenderWitness ==
  /\ disposeCount = 1
  /\ \E t \in DOMAIN tasks :
       /\ Running(t) /\ tasks[t].method = "workers"
       /\ Len(tasks[t].tiles) > 1
       /\ Range(tasks[t].tileWorker) \subseteq terminated

\* C14 as stated: once dispose() has returned, every worker the engine
\* created (its creation promise pending or fulfilled; a rejected promise
\* may stand for a constructor that threw) has been terminated, the pool is
\* empty and the GPU engine is not initialised, also when dispose() was
\* called during the initialisation.
DisposedStaysReleased ==
  disposeCount > 0 =>
    /\ workerPool = <<>>
    /\ ~gpu.isInitialized
    /\ \A i \in WorkerIds :
         workerStatus[i] \in {"pending", "fulfilled"} => i \in terminated


(***************************************************************************)
(* Properties of the metrics (SpecHistory).                                *)
(***************************************************************************)
RECURSIVE SumElapsed(_)
SumElapsed(n) == IF n = 0 THEN 0 ELSE elapsed(n) + SumElapsed(n - 1)

\* C15: after n completed renders the performance history holds the
\* elapsed times of the most recent min(n, 100) of them in completion
\* order, so at most 100 entries with the oldest dropped first, while
\* renderCount is n and totalRenderTime is the sum over all n renders.
HistoryKeepsLatest ==
  probe.phase = "history" =>
    LET n == probe.completed
        kept == Min(n, HistoryCapacity)
    IN  /\ Len(performanceHistory) = kept
        /\ \A j \in 1..kept : performanceHistory[j] = elapsed(n - kept + j)
        /\ renderCount = n
        /\ totalRenderTime = SumElapsed(n)

\* more renders have completed than the history holds
HistoryOverflowWitness ==
  /\ probe.phase = "history"
  /\ probe.completed > HistoryCapacity + 1
  /\ Len(performanceHistory) = HistoryCapacity


(***************************************************************************)
(* Properties of the worker (SpecWorker).                                  *)
(***************************************************************************)
\* the positions in the worker's replies of those carrying an id
RepliesTo(id) == {n \in DOMAIN outbox[1] : outbox[1][n].id = id}

\* C16: for every message the worker has handled it has posted exactly one
\* terminal reply carrying the message's id, a complete or an error
\* message, and every progress message carrying that id precedes it; for a
\* message it has not yet handled it has posted nothing.
OneTerminalReply ==
  probe.phase = "worker" =>
    \A k \in 1..probe.posted :
      LET id == <<0, k>>
          waiting == \E n \in DOMAIN inbox[1] : inbox[1][n].id = id
          terminal == {n \in RepliesTo(id) : outbox[1][n].type \in {"complete", "error"}}
      IN  IF waiting THEN RepliesTo(id) = {}
          ELSE /\ Cardinality(terminal) = 1
               /\ \A n \in RepliesTo(id) :
                    /\ outbox[1][n].type \in {"progress", "complete", "error"}
                    /\ \A o \in terminal : n <= o

\* the worker has answered a render message with three progress messages
\* and a complete message, and another message with an error message
WorkerRepliedWitness ==
  /\ probe.phase = "worker"
  /\ inbox[1] = <<>>
  /\ \E k, l \in 1..probe.posted :
       /\ Cardinality({n \in RepliesTo(<<0, k>>) : outbox[1][n].type = "progress"}) = 3
       /\ \E n \in RepliesTo(<<0, k>>) : outbox[1][n].type = "complete"
       /\ \E n \in RepliesTo(<<0, l>>) : outbox[1][n].type = "error"

\* the cells of the render's result buffers that differ between two tasks
ChangedCells(before, after) ==
  {c \in (0..(before.width - 1)) \X (0..(before.height - 1)) :
     \/ after.iterationData[c[2]][c[1]] # before.iterationData[c[2]][c[1]]
     \/ \E ch \in 0..(Channels - 1) :
          after.finalImageData.data[(c[2] * before.width + c[1]) * Channels + ch]
            # before.finalImageData.data[(c[2] * before.width + c[1]) * Channels + ch]}

\* C17: a pending tile of a worker render is settled only in a step in which
\* the engine takes, from the worker the request was sent to, a complete or
\* error message whose id is the id of that tile's request; a complete
\* message leaves the message's iteration data in the region of the request;
\* and the cells of the result buffers change only inside the region of a
\* tile that is settled as done in that step.  Replies to other tiles, of the
\* same or of another render on the same worker, in any order of arrival,
\* neither settle the tile nor write its region.
TileSettledByOwnReply ==
  [][\A t \in DOMAIN tasks :
       (tasks[t].method = "workers" /\ tasks[t].tiles # <<>>) =>
         /\ \A k \in DOMAIN tasks[t].tiles :
              tasks'[t].tileState[k] # tasks[t].tileState[k] =>
                LET w == tasks[t].tileWorker[k]
                    tile == tasks[t].tiles[k]
                IN  /\ tasks[t].tileState[k] = "pending"
                    /\ outbox[w] # <<>>
                    /\ outbox'[w] = Tail(SkipProgress(outbox[w]))
                    /\ Head(SkipProgress(outbox[w])).id = <<t, k>>
                    /\ IF Head(SkipProgress(outbox[w])).type = "complete"
                         THEN /\ tasks'[t].tileState[k] = "done"
                              /\ \A x \in 0..(tile.tileWidth - 1), y \in 0..(tile.tileHeight - 1) :
                                   tasks'[t].iterationData[tile.tileY + y][tile.tileX + x]
                                     = Head(SkipProgress(outbox[w])).payload.iterationData[y][x]
                         ELSE /\ Head(SkipProgress(outbox[w])).type = "error"
                              /\ tasks'[t].tileState[k] = "failed"
         /\ \A c \in ChangedCells(tasks[t], tasks'[t]) :
              \E k \in DOMAIN tasks[t].tiles :
                /\ InTile(tasks[t].tiles[k], c[1], c[2])
                /\ tasks[t].tileState[k] = "pending"
                /\ tasks'[t].tileState[k] = "done"]_vars

\* two renders are in flight with requests queued on the same worker, the
\* second tile of one of them has landed while its first is still pending,
\* and the other render still waits for a tile on the worker of that first
\* tile
OutOfOrderRepliesWitness ==
  \E t, u \in DOMAIN tasks :
    /\ t # u
    /\ tasks[t].method = "workers" /\ tasks[u].method = "workers"
    /\ tasks[t].status = "running" /\ tasks[u].status = "running"
    /\ Len(tasks[t].tiles) = 2
    /\ tasks[t].tileState = <<"pending", "done">>
    /\ \E k \in DOMAIN tasks[u].tiles :
         /\ tasks[u].tileWorker[k] = tasks[t].tileWorker[1]
         /\ tasks[u].tileState[k] = "pending"
    /\ \E k \in DOMAIN tasks[u].tiles : tasks[u].tileState[k] = "done"

(***************************************************************************)
(* Numeric kernels.  A JavaScript number is modelled as a fixed-point      *)
(* value: the integer n stands for n / Unit.  Every arithmetic operation   *)
(* of the source is one operation here, in the source's operand order, and *)
(* rounds its own result, so two computations agree when they perform the  *)
(* same operations on the same operands, as with IEEE double arithmetic.   *)
(***************************************************************************)
Unit == 100

\* an integer literal or loop variable as a number
num(n) == n * Unit

\* a * b
fmul(a, b) == (a * b) \div Unit

\* a / b for b > 0
fdiv(a, b) == (a * Unit) \div b

\* Math.abs
fabs(a) == IF a < 0 THEN 0 - a ELSE a

\* Math.sqrt: the largest r with r * r <= a, in the model's resolution
fsqrt(a) ==
  LET RECURSIVE isqrt(_, _, _)
      isqrt(n, lo, hi) ==
        IF lo >= hi THEN lo
        ELSE LET mid == (lo + hi + 1) \div 2
             IN  IF mid * mid <= n THEN isqrt(n, mid, hi) ELSE isqrt(n, lo, mid - 1)
  IN  isqrt(a * Unit, 0, Min(a * Unit, 40000))

\* the complex coordinate of the pixel at global (gx, gy): the expression
\* shared, word for word, by the four render*CPU methods and the four
\* branches of the worker's renderTile
\*   real = centerX + ((gx - width / 2) * scale * aspectRatio) / width
\*   imaginary = centerY + ((gy - height / 2) * scale) / height
pixelReal(p, width, height, gx) ==
  LET aspectRatio == fdiv(num(width), num(height))
      scale == fdiv(num(3), p.zoom)
  IN  p.centerX + fdiv(fmul(fmul(num(gx) - fdiv(num(width), num(2)), scale), aspectRatio),
                       num(width))

pixelImaginary(p, width, height, gy) ==
  LET scale == fdiv(num(3), p.zoom)
  IN  p.centerY + fdiv(fmul(num(gy) - fdiv(num(height), num(2)), scale), num(height))

(***************************************************************************)
(* The worker's kernels (fractal-worker.ts).                               *)
(***************************************************************************)
\* 1e-14, the floor under which |f'(z)| counts as zero: the smallest positive
\* number of the model
DerivativeFloor == 1

\* Number.POSITIVE_INFINITY
Infinity == 0 - 1

\* the loop 'while (zx * zx + zy * zy <= escapeRadius && iteration <
\* maxIterations)' from z = 0
calculateMandelbrotPoint(real, imaginary, maxIterations, escapeRadius) ==
  LET RECURSIVE loop(_, _, _)
      loop(zx, zy, iteration) ==
        IF fmul(zx, zx) + fmul(zy, zy) <= escapeRadius /\ iteration < maxIterations
          THEN loop(fmul(zx, zx) - fmul(zy, zy) + real,
                    fmul(fmul(num(2), zx), zy) + imaginary, iteration + 1)
          ELSE iteration
  IN  loop(0, 0, 0)

\* the same loop from z = the pixel, adding c
calculateJuliaPoint(real, imaginary, c, maxIterations, escapeRadius) ==
  LET RECURSIVE loop(_, _, _)
      loop(zx, zy, iteration) ==
        IF fmul(zx, zx) + fmul(zy, zy) <= escapeRadius /\ iteration < maxIterations
          THEN loop(fmul(zx, zx) - fmul(zy, zy) + c.real,
                    fmul(fmul(num(2), zx), zy) + c.imag, iteration + 1)
          ELSE iteration
  IN  loop(real, imaginary, 0)

\* the same loop with zy = Math.abs(2 * zx * zy) + imaginary
calculateBurningShipPoint(real, imaginary, maxIterations, escapeRadius) ==
  LET RECURSIVE loop(_, _, _)
      loop(zx, zy, iteration) ==
        IF fmul(zx, zx) + fmul(zy, zy) <= escapeRadius /\ iteration < maxIterations
          THEN loop(fmul(zx, zx) - fmul(zy, zy) + real,
                    fabs(fmul(fmul(num(2), zx), zy)) + imaginary, iteration + 1)
          ELSE iteration
  IN  loop(0, 0, 0)

multiply(a, b) ==
  [real |-> fmul(a.real, b.real) - fmul(a.imag, b.imag),
   imag |-> fmul(a.real, b.imag) + fmul(a.imag, b.real)]

add(a, b) == [real |-> a.real + b.real, imag |-> a.imag + b.imag]

subtract(a, b) == [real |-> a.real - b.real, imag |-> a.imag - b.imag]

divide(a, b) ==
  LET denominator == fmul(b.real, b.real) + fmul(b.imag, b.imag)
  IN  [real |-> fdiv(fmul(a.real, b.real) + fmul(a.imag, b.imag), denominator),
       imag |-> fdiv(fmul(a.imag, b.real) - fmul(a.real, b.imag), denominator)]

magnitude(z) == fsqrt(fmul(z.real, z.real) + fmul(z.imag, z.imag))

\* f(z) = (z - root1)...(z - rootN) and f'(z), the sum over i of the
\* product of the factors other than the i-th
evaluatePolynomialFromRootsWorker(z, roots) ==
  LET \* term * (z - roots[j]) * ... * (z - roots[N]) without the factor skip
      RECURSIVE product(_, _, _)
      product(term, j, skip) ==
        IF j > Len(roots) THEN term
        ELSE product(IF j = skip THEN term ELSE multiply(term, subtract(z, roots[j])),
                     j + 1, skip)
      RECURSIVE derivative(_, _)
      derivative(fPrime, i) ==
        IF i > Len(roots) THEN fPrime
        ELSE derivative(add(fPrime, product([real |-> num(1), imag |-> 0], 1, i)), i + 1)
  IN  IF Len(roots) = 0
        THEN [f |-> [real |-> num(1), imag |-> 0], fPrime |-> [real |-> 0, imag |-> 0]]
        ELSE [f |-> product([real |-> num(1), imag |-> 0], 1, 0),
              fPrime |-> derivative([real |-> 0, imag |-> 0], 1)]

\* variant: a vanishing derivative reports the iterations done so far
calculateNewtonPointMutEarlyCount(real, imaginary, tolerance, maxIterations, roots) ==
  LET RECURSIVE closest(_, _, _, _)
      closest(zNext, index, closestRoot, minDistance) ==
        IF index > Len(roots) THEN closestRoot
        ELSE LET dx == zNext.real - roots[index].real
                 dy == zNext.imag - roots[index].imag
                 distance == fmul(dx, dx) + fmul(dy, dy)
             IN  IF minDistance = Infinity \/ distance < minDistance
                   THEN IF distance < fmul(tolerance, tolerance)
                          THEN index - 1
                          ELSE closest(zNext, index + 1, index - 1, distance)
                   ELSE closest(zNext, index + 1, closestRoot, minDistance)
      RECURSIVE loop(_, _)
      loop(z, iteration) ==
        IF iteration >= maxIterations THEN [iterations |-> maxIterations, root |-> 0 - 1]
        ELSE LET ev == evaluatePolynomialFromRootsWorker(z, roots)
             IN  IF magnitude(ev.fPrime) < DerivativeFloor
                   THEN [iterations |-> iteration, root |-> 0 - 1]
                   ELSE LET zNext == subtract(z, divide(ev.f, ev.fPrime))
                        IN  IF magnitude(subtract(zNext, z)) < tolerance
                              THEN [iterations |-> iteration,
                                    root |-> closest(zNext, 1, 0, Infinity)]
                              ELSE loop(zNext, iteration + 1)
  IN  loop([real |-> real, imag |-> imaginary], 0)
calculateNewtonPoint(real, imaginary, tolerance, maxIterations, roots) ==
  LET \* the search for the root closest to zNext, with its early exit; index
      \* is 1-based here, the result is the 0-based index of the source
      RECURSIVE closest(_, _, _, _)
      closest(zNext, index, closestRoot, minDistance) ==
        IF index > Len(roots) THEN closestRoot
        ELSE LET dx == zNext.real - roots[index].real
                 dy == zNext.imag - roots[index].imag
                 distance == fmul(dx, dx) + fmul(dy, dy)
             IN  IF minDistance = Infinity \/ distance < minDistance
                   THEN IF distance < fmul(tolerance, tolerance)
                          THEN index - 1
                          ELSE closest(zNext, index + 1, index - 1, distance)
                   ELSE closest(zNext, index + 1, closestRoot, minDistance)
      RECURSIVE loop(_, _)
      loop(z, iteration) ==
        IF iteration >= maxIterations THEN [iterations |-> maxIterations, root |-> 0 - 1]
        ELSE LET ev == evaluatePolynomialFromRootsWorker(z, roots)
             IN  IF magnitude(ev.fPrime) < DerivativeFloor
                   THEN [iterations |-> maxIterations, root |-> 0 - 1]
                   ELSE LET zNext == subtract(z, divide(ev.f, ev.fPrime))
                        IN  IF magnitude(subtract(zNext, z)) < tolerance
                              THEN [iterations |-> iteration,
                                    root |-> closest(zNext, 1, 0, Infinity)]
                              ELSE loop(zNext, iteration + 1)
  IN  loop([real |-> real, imag |-> imaginary], 0)

(***************************************************************************)
(* The compute shader of WebGPUEngine (webgpu-engine.ts).                  *)
(***************************************************************************)
\* a value of the shader's type f32: the numbers of the main thread and of
\* the workers are doubles, kept to 1 / Unit; single precision keeps fewer
\* digits, here one decimal where a double keeps two (Unit = 100), so that
\* 0.5, 1, 3 and 4 are the same number in both
f32(a) == (a \div 10) * 10

\* fn main of the shader for the invocation (x, y) inside the grid: the
\* mapping and the loop of the Mandelbrot kernel, every operation in f32;
\* the parameters arrive through setFloat32
shaderMain(p, width, height, x, y) ==
  LET mul(a, b) == f32(fmul(a, b))
      div(a, b) == f32(fdiv(a, b))
      aspectRatio == div(num(width), num(height))
      scale == div(num(3), f32(p.zoom))
      real == f32(f32(p.centerX)
                  + div(mul(mul(f32(num(x) - div(num(width), num(2))), scale), aspectRatio),
                        num(width)))
      imag == f32(f32(p.centerY)
                  + div(mul(f32(num(y) - div(num(height), num(2))), scale), num(height)))
      RECURSIVE loop(_, _, _)
      loop(zx, zy, iteration) ==
        IF f32(mul(zx, zx) + mul(zy, zy)) <= f32(p.escapeRadius)
           /\ iteration < p.iterations
          THEN loop(f32(f32(mul(zx, zx) - mul(zy, zy)) + real),
                    f32(mul(mul(num(2), zx), zy) + imag), iteration + 1)
          ELSE iteration
  IN  loop(0, 0, 0)

\* WebGPUEngine.renderMandelbrot: ceil(width / 8) x ceil(height / 8)
\* workgroups of 8 x 8 invocations; an invocation outside the grid returns,
\* one inside writes output[y * width + x]; the rows are read back from the
\* output buffer, 0 for an index that is not in it
renderMandelbrot(p, width, height) ==
  LET invocations == {<<x, y>> \in (0..(8 * CeilDiv(width, 8) - 1))
                                    \X (0..(8 * CeilDiv(height, 8) - 1)) :
                        ~(x >= width \/ y >= height)}
      output == [index \in {v[2] * width + v[1] : v \in invocations} |->
                   LET v == CHOOSE v \in invocations : v[2] * width + v[1] = index
                   IN  shaderMain(p, width, height, v[1], v[2])]
  IN  [y \in 0..(height - 1) |->
        [x \in 0..(width - 1) |->
          IF y * width + x \in DOMAIN output THEN output[y * width + x] ELSE 0]]

(***************************************************************************)
(* The main thread's kernels (FractalCalculations and ComplexMath), which  *)
(* the render*CPU methods call.                                            *)
(***************************************************************************)
\* the loop 'while (zx * zx + zy * zy <= escapeRadius && iteration <
\* maxIterations)' from z = 0
FractalCalculations_mandelbrot(real, imaginary, maxIterations, escapeRadius) ==
  LET RECURSIVE loop(_, _, _)
      loop(zx, zy, iteration) ==
        IF fmul(zx, zx) + fmul(zy, zy) <= escapeRadius /\ iteration < maxIterations
          THEN loop(fmul(zx, zx) - fmul(zy, zy) + real,
                    fmul(fmul(num(2), zx), zy) + imaginary, iteration + 1)
          ELSE iteration
  IN  loop(0, 0, 0)

\* the same loop from z = the pixel, adding c
FractalCalculations_julia(real, imaginary, c, maxIterations, escapeRadius) ==
  LET RECURSIVE loop(_, _, _)
      loop(zx, zy, iteration) ==
        IF fmul(zx, zx) + fmul(zy, zy) <= escapeRadius /\ iteration < maxIterations
          THEN loop(fmul(zx, zx) - fmul(zy, zy) + c.real,
                    fmul(fmul(num(2), zx), zy) + c.imag, iteration + 1)
          ELSE iteration
  IN  loop(real, imaginary, 0)

\* the same loop with zy = Math.abs(2 * zx * zy) + imaginary
FractalCalculations_burningShip(real, imaginary, maxIterations, escapeRadius) ==
  LET RECURSIVE loop(_, _, _)
      loop(zx, zy, iteration) ==
        IF fmul(zx, zx) + fmul(zy, zy) <= escapeRadius /\ iteration < maxIterations
          THEN loop(fmul(zx, zx) - fmul(zy, zy) + real,
                    fabs(fmul(fmul(num(2), zx), zy)) + imaginary, iteration + 1)
          ELSE iteration
  IN  loop(0, 0, 0)

ComplexMath_multiply(a, b) ==
  [real |-> fmul(a.real, b.real) - fmul(a.imag, b.imag),
   imag |-> fmul(a.real, b.imag) + fmul(a.imag, b.real)]

ComplexMath_add(a, b) == [real |-> a.real + b.real, imag |-> a.imag + b.imag]

ComplexMath_subtract(a, b) == [real |-> a.real - b.real, imag |-> a.imag - b.imag]

ComplexMath_divide(a, b) ==
  LET denominator == fmul(b.real, b.real) + fmul(b.imag, b.imag)
  IN  [real |-> fdiv(fmul(a.real, b.real) + fmul(a.imag, b.imag), denominator),
       imag |-> fdiv(fmul(a.imag, b.real) - fmul(a.real, b.imag), denominator)]

ComplexMath_magnitude(z) == fsqrt(fmul(z.real, z.real) + fmul(z.imag, z.imag))

\* f(z) = (z - root1)...(z - rootN) and f'(z), the sum over i of the
\* product of the factors other than the i-th
evaluatePolynomialFromRoots(z, roots) ==
  LET \* term * (z - roots[j]) * ... * (z - roots[N]) without the factor skip
      RECURSIVE product(_, _, _)
      product(term, j, skip) ==
        IF j > Len(roots) THEN term
        ELSE product(IF j = skip THEN term ELSE ComplexMath_multiply(term, ComplexMath_subtract(z, roots[j])),
                     j + 1, skip)
      RECURSIVE derivative(_, _)
      derivative(fPrime, i) ==
        IF i > Len(roots) THEN fPrime
        ELSE derivative(ComplexMath_add(fPrime, product([real |-> num(1), imag |-> 0], 1, i)), i + 1)
  IN  IF Len(roots) = 0
        THEN [f |-> [real |-> num(1), imag |-> 0], fPrime |-> [real |-> 0, imag |-> 0]]
        ELSE [f |-> product([real |-> num(1), imag |-> 0], 1, 0),
              fPrime |-> derivative([real |-> 0, imag |-> 0], 1)]

\* the polynomial argument is not read
FractalCalculations_newton(real, imaginary, polynomial, tolerance, maxIterations, roots) ==
  LET \* the search for the root closest to zNext, with its early exit; index
      \* is 1-based here, the result is the 0-based index of the source
      RECURSIVE closest(_, _, _, _)
      closest(zNext, index, closestRoot, minDistance) ==
        IF index > Len(roots) THEN closestRoot
        ELSE LET dx == zNext.real - roots[index].real
                 dy == zNext.imag - roots[index].imag
                 distance == fmul(dx, dx) + fmul(dy, dy)
             IN  IF minDistance = Infinity \/ distance < minDistance
                   THEN IF distance < fmul(tolerance, tolerance)
                          THEN index - 1
                          ELSE closest(zNext, index + 1, index - 1, distance)
                   ELSE closest(zNext, index + 1, closestRoot, minDistance)
      RECURSIVE loop(_, _)
      loop(z, iteration) ==
        IF iteration >= maxIterations THEN [iterations |-> maxIterations, root |-> 0 - 1]
        ELSE LET ev == evaluatePolynomialFromRoots(z, roots)
             IN  IF ComplexMath_magnitude(ev.fPrime) < DerivativeFloor
                   THEN [iterations |-> maxIterations, root |-> 0 - 1]
                   ELSE LET zNext == ComplexMath_subtract(z, ComplexMath_divide(ev.f, ev.fPrime))
                        IN  IF ComplexMath_magnitude(ComplexMath_subtract(zNext, z)) < tolerance
                              THEN [iterations |-> iteration,
                                    root |-> closest(zNext, 1, 0, Infinity)]
                              ELSE loop(zNext, iteration + 1)
  IN  loop([real |-> real, imag |-> imaginary], 0)

(***************************************************************************)
(* Palettes.  A palette is a function from 0..PaletteSteps-1 to colours    *)
(* <<r, g, b, a>>.  The generators are closed forms over the rational      *)
(* t = i / (steps - 1); they are evaluated here in exact integer           *)
(* arithmetic: floor(from + s * (to - from)) for s = n / d is              *)
(* from + ((to - from) * n) \div d.                                        *)
(***************************************************************************)
PaletteSteps == 256

Black == <<0, 0, 0, OpaqueAlpha>>

\* the value NaN of a colour component: outside every channel range
NaN == 0 - 2

\* Math.floor(from + s * (to - from)) for s = n / d; with steps = 1 the
\* generators compute t = 0 / (steps - 1) = NaN, every comparison t < bound
\* is false and every component computed from s is NaN
ramp(from, to, n, d) == IF d = 0 THEN NaN ELSE from + ((to - from) * n) \div d

\* hue2rgb(p, q, t) of hslToRgb for s = 100, l = 50 (q = 1, p = 0), times
\* 255 and rounded; t = n / 768
hue2rgb(n) ==
  LET m == IF n < 0 THEN n + 768 ELSE IF n > 768 THEN n - 768 ELSE n
      \* Math.round(255 * v) for v = a / d
      round255(a, d) == (2 * 255 * a + d) \div (2 * d)
  IN  IF m * 6 < 768 THEN round255(6 * m, 768)
      ELSE IF m * 2 < 768 THEN 255
      ELSE IF m * 3 < 2 * 768 THEN round255(6 * (512 - m), 768)
      ELSE 0

\* entry i of the 'rainbow' palette: hslToRgb((i / steps) * 360, 100, 50);
\* the text is the same in the worker and in ColorPalette
rainbowColor(i, steps) ==
  <<hue2rgb((768 * i) \div steps + 256), hue2rgb((768 * i) \div steps),
    hue2rgb((768 * i) \div steps - 256), OpaqueAlpha>>

\* entry i of the 'grayscale' palette
grayscaleColor(i, steps) ==
  LET value == ramp(0, 255, i, steps - 1) IN <<value, value, value, OpaqueAlpha>>

\* entry i of the 'fire' palette
fireColor(i, steps) ==
  IF 2 * i < steps - 1
    THEN <<ramp(0, 255, 2 * i, steps - 1), 0, 0, OpaqueAlpha>>
    ELSE <<255, ramp(0, 255, 2 * i - (steps - 1), steps - 1),
           ramp(0, 100, 2 * i - (steps - 1), steps - 1), OpaqueAlpha>>

\* entry i of the 'mandelbrot' palette (the default branch of the worker's
\* generatePalette, ColorPalette.generateMandelbrot): five segments with
\* the bounds 0.16, 0.42, 0.6425, 0.8575; t is kept in units of 1/10000
mandelbrotColor(i, steps) ==
  LET d == steps - 1
      t == 10000 * i      \* t * 10000 * d
  IN  IF t < 1600 * d
        THEN <<ramp(0, 66, t, 1600 * d), ramp(0, 30, t, 1600 * d),
               ramp(0, 15, t, 1600 * d), OpaqueAlpha>>
      ELSE IF t < 4200 * d
        THEN <<ramp(66, 25, t - 1600 * d, 2600 * d), ramp(30, 7, t - 1600 * d, 2600 * d),
               ramp(15, 26, t - 1600 * d, 2600 * d), OpaqueAlpha>>
      ELSE IF t < 6425 * d
        THEN <<ramp(25, 9, t - 4200 * d, 2225 * d), ramp(7, 1, t - 4200 * d, 2225 * d),
               ramp(26, 47, t - 4200 * d, 2225 * d), OpaqueAlpha>>
      ELSE IF t < 8575 * d
        THEN <<ramp(9, 2, t - 6425 * d, 2150 * d), ramp(1, 4, t - 6425 * d, 2150 * d),
               ramp(47, 73, t - 6425 * d, 2150 * d), OpaqueAlpha>>
      ELSE <<ramp(2, 0, t - 8575 * d, 1425 * d), ramp(4, 7, t - 8575 * d, 1425 * d),
             ramp(73, 100, t - 8575 * d, 1425 * d), OpaqueAlpha>>

\* entry i of ColorPalette.generateJulia: four segments of a quarter each
juliaColor(i, steps) ==
  LET d == steps - 1
      t == 4 * i          \* t * 4 * d
  IN  IF t < d
        THEN <<ramp(0, 75, t, d), 0, ramp(0, 130, t, d), OpaqueAlpha>>
      ELSE IF t < 2 * d
        THEN <<ramp(75, 123, t - d, d), ramp(0, 104, t - d, d),
               ramp(130, 238, t - d, d), OpaqueAlpha>>
      ELSE IF t < 3 * d
        THEN <<ramp(123, 255, t - 2 * d, d), ramp(104, 182, t - 2 * d, d),
               ramp(238, 193, t - 2 * d, d), OpaqueAlpha>>
      ELSE <<ramp(255, 255, t - 3 * d, d), ramp(182, 255, t - 3 * d, d),
             ramp(193, 255, t - 3 * d, d), OpaqueAlpha>>

\* entry i of ColorPalette.generateHot, generateCool, generateOcean and
\* generateSunset
plainColor(type, i, steps) ==
  LET d == steps - 1
      \* Math.min(255, Math.max(0, v)); Math.min and Math.max keep NaN
      clamp(v) == IF v = NaN THEN NaN ELSE IF v > 255 THEN 255 ELSE IF v < 0 THEN 0 ELSE v
  IN  CASE type = "hot" ->
             <<clamp(ramp(0, 765, i, d)), clamp(ramp(0 - 255, 510, i, d)),
               clamp(ramp(0 - 510, 255, i, d)), OpaqueAlpha>>
        [] type = "cool" -> <<ramp(0, 255, i, d), ramp(255, 0, i, d), 255, OpaqueAlpha>>
        [] type = "ocean" ->
             IF 2 * i < d
               THEN <<0, ramp(0, 100, 2 * i, d), ramp(50, 255, 2 * i, d), OpaqueAlpha>>
               ELSE <<ramp(0, 100, 2 * i - d, d), ramp(100, 255, 2 * i - d, d), 255,
                      OpaqueAlpha>>
        [] type = "sunset" ->
             IF 10 * i < 3 * d
               THEN <<ramp(50, 255, 10 * i, 3 * d), ramp(0, 50, 10 * i, 3 * d),
                      ramp(0, 100, 10 * i, 3 * d), OpaqueAlpha>>
             ELSE IF 10 * i < 7 * d
               THEN <<255, ramp(50, 215, 10 * i - 3 * d, 4 * d),
                      ramp(100, 155, 10 * i - 3 * d, 4 * d), OpaqueAlpha>>
             ELSE <<255, ramp(215, 255, 10 * i - 7 * d, 3 * d),
                    ramp(155, 255, 10 * i - 7 * d, 3 * d), OpaqueAlpha>>

\* baseColors, the same list in the worker and in ColorPalette
baseColors ==
  <<<<255, 100, 100>>, <<100, 255, 100>>, <<100, 100, 255>>, <<255, 255, 100>>,
    <<255, 100, 255>>, <<100, 255, 255>>, <<255, 150, 50>>, <<150, 50, 255>>,
    <<50, 255, 150>>, <<255, 50, 150>>>>

\* entry i of the 'newton' palette for rootCount roots: one set of
\* stepsPerColorSet entries per root, each base colour dimmed from
\* brightness 1.0 down to 0.3; a gray set from 50 to 255 when there are four
\* roots or more; black for what remains.  The worker multiplies i by
\* 1 / (stepsPerColorSet - 1) where ColorPalette divides i by
\* stepsPerColorSet - 1: the same rational
newtonColor(i, steps, rootCount) ==
  LET useGrayPalette == rootCount >= 4
      totalColorSets == IF useGrayPalette THEN rootCount + 1 ELSE rootCount
      stepsPerColorSet == steps \div totalColorSets
      set == i \div stepsPerColorSet     \* 0-based colour set of entry i
      j == i % stepsPerColorSet
      d == IF stepsPerColorSet > 1 THEN stepsPerColorSet - 1 ELSE 1
      baseColor == baseColors[(set % Len(baseColors)) + 1]
      \* Math.floor(base * (0.3 + (1 - j / d) * 0.7))
      dim(base) == (base * (3 * d + 7 * (d - j))) \div (10 * d)
  IN  IF stepsPerColorSet = 0 THEN Black    \* no set has an entry: all black
      ELSE IF set < rootCount
        THEN <<dim(baseColor[1]), dim(baseColor[2]), dim(baseColor[3]), OpaqueAlpha>>
      ELSE IF useGrayPalette /\ set = rootCount
        THEN LET grayValue == ramp(50, 255, j, d)
             IN  <<grayValue, grayValue, grayValue, OpaqueAlpha>>
      ELSE Black

\* palette names of the requests; "undefined" stands for options without a
\* paletteType.  The generators of 'hot', 'cool', 'ocean' and 'sunset' have
\* the same text in the worker and in ColorPalette and are not requested
Undefined == "undefined"
PaletteTypes == {"mandelbrot", "julia", "rainbow", "grayscale", "fire", "newton"}

\* a palette cache (Map<string, number[][]>): a function from keys to palettes
EmptyCache == <<>>

\* the switch of the worker's generatePalette
workerPaletteColor(type, i, steps, rootCount) ==
  CASE type = "rainbow" -> rainbowColor(i, steps)
    [] type = "fire" -> fireColor(i, steps)
    [] type = "grayscale" -> grayscaleColor(i, steps)
    [] type = "newton" -> newtonColor(i, steps, IF rootCount = 0 THEN 3 ELSE rootCount)
    [] OTHER -> mandelbrotColor(i, steps)

\* variant: a cache key without the step count
generatePaletteMutKeyNoSteps(cache, type, steps, rootCount) ==
  LET cacheKey == <<type, 0, rootCount>>
  IN  IF cacheKey \in DOMAIN cache
        THEN [palette |-> cache[cacheKey], cache |-> cache]
        ELSE LET colors == [i \in 0..(steps - 1) |->
                              workerPaletteColor(type, i, steps, rootCount)]
             IN  [palette |-> colors, cache |-> MapPut(cache, cacheKey, colors)]
\* the worker's generatePalette: the cached palette if the key is cached,
\* else a new palette, which is cached; yields the palette and the cache
generatePalette(cache, type, steps, rootCount) ==
  LET \* `${type}_${steps}_${rootCount || 0}`; rootCount = 0 stands for undefined
      cacheKey == <<type, steps, rootCount>>
  IN  IF cacheKey \in DOMAIN cache
        THEN [palette |-> cache[cacheKey], cache |-> cache]
        ELSE LET colors == [i \in 0..(steps - 1) |->
                              workerPaletteColor(type, i, steps, rootCount)]
             IN  [palette |-> colors, cache |-> MapPut(cache, cacheKey, colors)]

\* variant: a cache key without the root count
generateNewtonMutKeyNoRoots(cache, steps, rootCount) ==
  LET cacheKey == <<"newton", steps>>
  IN  IF cacheKey \in DOMAIN cache
        THEN [palette |-> cache[cacheKey], cache |-> cache]
        ELSE LET colors == [i \in 0..(steps - 1) |-> newtonColor(i, steps, rootCount)]
             IN  [palette |-> colors, cache |-> MapPut(cache, cacheKey, colors)]

\* ColorPalette.generateNewton(steps, rootCount), cached under
\* `newton_${steps}_${rootCount}`
generateNewton(cache, steps, rootCount) ==
  LET cacheKey == <<"newton", steps, rootCount>>
  IN  IF cacheKey \in DOMAIN cache
        THEN [palette |-> cache[cacheKey], cache |-> cache]
        ELSE LET colors == [i \in 0..(steps - 1) |-> newtonColor(i, steps, rootCount)]
             IN  [palette |-> colors, cache |-> MapPut(cache, cacheKey, colors)]

\* ColorPalette.getPaletteNames()
getPaletteNames ==
  {"mandelbrot", "julia", "newton", "hot", "cool", "rainbow", "fire", "ocean", "sunset",
   "grayscale"}

\* ColorPalette.getPalette(type, steps): only generateNewton uses the cache
getPalette(cache, type, steps) ==
  IF type = "newton" THEN generateNewton(cache, steps, 3)
  ELSE [palette |-> [i \in 0..(steps - 1) |->
                       CASE type \in {"hot", "cool", "ocean", "sunset"} ->
                              plainColor(type, i, steps)
                         [] type = "rainbow" -> rainbowColor(i, steps)
                         [] type = "grayscale" -> grayscaleColor(i, steps)
                         [] type = "julia" -> juliaColor(i, steps)
                         [] type = "fire" -> fireColor(i, steps)
                         [] OTHER -> mandelbrotColor(i, steps)],
        cache |-> cache]

(***************************************************************************)
(* Per-pixel values of the two CPU backends.                               *)
(***************************************************************************)
\* the worker's renderTile throws for this request (Newton without roots)
tileThrows(fractalType, p) == fractalType = "newton" /\ Len(p.roots) = 0

\* variant: the kernel is fed the tile-local column instead of globalX
tileColorValueMutLocalX(fractalType, p, width, height, tile, x, y) ==
  LET real == pixelReal(p, width, height, x)
      imaginary == pixelImaginary(p, width, height, tile.tileY + y)
  IN  CASE fractalType = "mandelbrot" ->
             calculateMandelbrotPoint(real, imaginary, p.iterations, p.escapeRadius)
        [] fractalType = "julia" ->
             calculateJuliaPoint(real, imaginary, p.c, p.iterations, p.escapeRadius)
        [] fractalType = "burning-ship" ->
             calculateBurningShipPoint(real, imaginary, p.iterations, p.escapeRadius)
        [] fractalType = "newton" ->
             LET result == calculateNewtonPoint(real, imaginary, p.tolerance,
                                                p.iterations, p.roots)
             IN  IF result.root >= 0 THEN result.root * 100 + result.iterations
                 ELSE p.iterations

\* the colorValue the worker's renderTile pushes for the pixel at column x,
\* row y of a tile (globalX = tileX + x, globalY = tileY + y)
tileColorValue(fractalType, p, width, height, tile, x, y) ==
  LET real == pixelReal(p, width, height, tile.tileX + x)
      imaginary == pixelImaginary(p, width, height, tile.tileY + y)
  IN  CASE fractalType = "mandelbrot" ->
             calculateMandelbrotPoint(real, imaginary, p.iterations, p.escapeRadius)
        [] fractalType = "julia" ->
             calculateJuliaPoint(real, imaginary, p.c, p.iterations, p.escapeRadius)
        [] fractalType = "burning-ship" ->
             calculateBurningShipPoint(real, imaginary, p.iterations, p.escapeRadius)
        [] fractalType = "newton" ->
             LET result == calculateNewtonPoint(real, imaginary, p.tolerance,
                                                p.iterations, p.roots)
             IN  IF result.root >= 0 THEN result.root * 100 + result.iterations
                 ELSE p.iterations

\* the iterationData of the worker's CompleteMessage for a tile
tileIterationData(fractalType, p, width, height, tile) ==
  [y \in 0..(tile.tileHeight - 1) |->
    [x \in 0..(tile.tileWidth - 1) |->
      tileColorValue(fractalType, p, width, height, tile, x, y)]]

\* the value render<Kind>CPU pushes for the pixel (x, y)
cpuColorValue(fractalType, p, width, height, x, y) ==
  LET real == pixelReal(p, width, height, x)
      imaginary == pixelImaginary(p, width, height, y)
  IN  CASE fractalType = "mandelbrot" ->
             FractalCalculations_mandelbrot(real, imaginary, p.iterations, p.escapeRadius)
        [] fractalType = "julia" ->
             FractalCalculations_julia(real, imaginary, p.c, p.iterations, p.escapeRadius)
        [] fractalType = "burning-ship" ->
             FractalCalculations_burningShip(real, imaginary, p.iterations, p.escapeRadius)
        [] fractalType = "newton" ->
             LET result == FractalCalculations_newton(real, imaginary, <<>>, p.tolerance,
                                                      p.iterations, p.roots)
             IN  IF result.root >= 0 THEN result.root * 100 + result.iterations
                 ELSE p.iterations

\* the iterationData of render<Kind>CPU
cpuIterationData(fractalType, p, width, height) ==
  [y \in 0..(height - 1) |->
    [x \in 0..(width - 1) |-> cpuColorValue(fractalType, p, width, height, x, y)]]

(***************************************************************************)
(* Per-pixel colours of the two CPU backends.                              *)
(***************************************************************************)
\* the worker's maxIterations for Newton ("maxIterations = 300")
NewtonMaxIterations == 300

\* Math.max(0, Math.min(colorIndex, palette.length - 1))
clampIndex(colorIndex, palette) ==
  IF colorIndex < 0 THEN 0
  ELSE Min(colorIndex, PaletteSteps - 1)

\* parameters.roots?.length || 3
rootCountOf(p) == IF Len(p.roots) = 0 THEN 3 ELSE Len(p.roots)

\* renderWithWorkers: paletteType = 'rainbow' when omitted, and 'newton' in
\* the place of 'rainbow' for a Newton render
effectivePaletteType(fractalType, paletteType) ==
  LET chosen == IF paletteType = Undefined THEN "rainbow" ELSE paletteType
  IN  IF fractalType = "newton" /\ chosen = "rainbow" THEN "newton" ELSE chosen

\* the rootCount argument of generatePalette in renderTile (0: undefined)
tileRootCount(fractalType, p) == IF fractalType = "newton" THEN rootCountOf(p) ELSE 0

\* the colour the worker's renderTile writes for a pixel of value colorValue
\* (for the escape-time kinds iterations = colorValue)
tilePixelColor(fractalType, p, paletteType, palette, colorValue) ==
  LET maxIterations == IF fractalType = "newton" THEN NewtonMaxIterations ELSE p.iterations
  IN  IF fractalType # "newton" /\ colorValue = maxIterations THEN Black
      ELSE IF fractalType = "newton" /\ paletteType = "newton"
        THEN LET rootCount == rootCountOf(p)
                 useExtendedPalette == rootCount >= 4
                 totalColorSets == IF useExtendedPalette THEN rootCount + 1 ELSE rootCount
                 colorsPerSet == PaletteSteps \div totalColorSets
                 rootIndex == colorValue \div 100
                 iterationsInColor == colorValue % 100
                 spread == IF colorsPerSet - 1 > 1 THEN colorsPerSet - 1 ELSE 1
                 iterationOffset == (iterationsInColor * spread) \div maxIterations
                 colorIndex ==
                   IF rootIndex >= 0 /\ rootIndex < rootCount
                     THEN rootIndex * colorsPerSet + iterationOffset
                   ELSE IF useExtendedPalette /\ rootIndex >= rootCount
                     THEN rootCount * colorsPerSet + iterationOffset
                   ELSE 0
             IN  palette[clampIndex(colorIndex, palette)]
        ELSE palette[clampIndex((colorValue * (PaletteSteps - 1)) \div maxIterations, palette)]

\* the imageData of the worker's CompleteMessage for a tile
tileImageData(fractalType, p, width, height, tile, paletteType, palette) ==
  [width |-> tile.tileWidth, height |-> tile.tileHeight,
   data |-> [i \in 0..(tile.tileWidth * tile.tileHeight * Channels - 1) |->
              LET px == i \div Channels
                  colorValue == tileColorValue(fractalType, p, width, height, tile,
                                               px % tile.tileWidth, px \div tile.tileWidth)
              IN  tilePixelColor(fractalType, p, paletteType, palette,
                                 colorValue)[(i % Channels) + 1]]]

\* the default each render<Kind>CPU gives an omitted paletteType
cpuPaletteType(fractalType, paletteType) ==
  IF paletteType # Undefined THEN paletteType
  ELSE CASE fractalType = "mandelbrot" -> "mandelbrot"
         [] fractalType = "julia" -> "julia"
         [] fractalType = "burning-ship" -> "fire"
         [] fractalType = "newton" -> "newton"

\* a pixel ColorPalette.applyPalette leaves as new ImageData made it
Untouched == <<0, 0, 0, 0>>

\* the colour ColorPalette.applyPalette writes for a cell
applyPaletteColor(iterations, maxIterations, palette) ==
  IF iterations = maxIterations THEN Black
  ELSE LET colorIndex == (iterations * (PaletteSteps - 1)) \div maxIterations
       IN  IF colorIndex \in DOMAIN palette THEN palette[colorIndex] ELSE Untouched

\* the colour FractalEngine.applyNewtonPalette writes for a cell
applyNewtonPaletteColor(colorValue, maxIterations, palette, rootCount) ==
  IF colorValue = maxIterations THEN Black
  ELSE LET useExtendedPalette == rootCount >= 4
           totalColorSets == IF useExtendedPalette THEN rootCount + 1 ELSE rootCount
           colorsPerSet == PaletteSteps \div totalColorSets
           rootIndex == colorValue \div 100
           iterations == colorValue % 100
           iterationOffset == (iterations * (colorsPerSet - 1)) \div maxIterations
           paletteIndex ==
             IF rootIndex >= 0 /\ rootIndex < rootCount
               THEN rootIndex * colorsPerSet + iterationOffset
               ELSE rootCount * colorsPerSet + iterationOffset
       IN  IF (rootIndex >= 0 /\ rootIndex < rootCount)
              \/ (useExtendedPalette /\ rootIndex >= rootCount)
             THEN IF paletteIndex \in DOMAIN palette THEN palette[paletteIndex] ELSE Untouched
             ELSE Black

\* the imageData of render<Kind>CPU: applyNewtonPalette with the palette of
\* getNewtonPalette for a Newton render with the 'newton' palette, else
\* applyPalette with the palette of getPalette; yields the image and the
\* palette cache
cpuImageData(cache, fractalType, p, width, height, paletteType) ==
  LET chosen == cpuPaletteType(fractalType, paletteType)
      newtonWay == fractalType = "newton" /\ chosen = "newton"
      got == IF newtonWay THEN generateNewton(cache, PaletteSteps, rootCountOf(p))
             ELSE getPalette(cache, chosen, PaletteSteps)
  IN  [imageData |->
         [width |-> width, height |-> height,
          data |-> [i \in 0..(width * height * Channels - 1) |->
                     LET px == i \div Channels
                         value == cpuColorValue(fractalType, p, width, height,
                                                px % width, px \div width)
                         color == IF newtonWay
                                    THEN applyNewtonPaletteColor(value, p.iterations,
                                                                 got.palette, rootCountOf(p))
                                    ELSE applyPaletteColor(value, p.iterations, got.palette)
                     IN  color[(i % Channels) + 1]]],
       cache |-> got.cache]

(***************************************************************************)
(* The two CPU backends side by side: one request is rendered by the       *)
(* worker pool, tile by tile in any order of completion, and by the        *)
(* single-threaded scan.                                                   *)
(***************************************************************************)
KernelMaxWidth == 3
KernelMaxHeight == 2
KernelMaxTileSize == 3
KernelMaxPool == 2

Complex(re, im) == [real |-> re, imag |-> im]

\* root lists: none, the two square roots of 1, the three cube roots of 1
\* (to two decimals)
RootLists ==
  {<<>>,
   <<Complex(num(1), 0), Complex(0 - num(1), 0)>>,
   <<Complex(num(1), 0), Complex(0 - 50, 87), Complex(0 - 50, 0 - 87)>>}

\* the requests of the comparison: zoom 1, centre (-0.5, 0) or (0, 0),
\* 2 or 4 iterations (Newton: 103 and 200 iterations as well, caps above
\* the factor 100 of the composite value), escapeRadius 4, c = -0.7 + 0.27i,
\* tolerance 0.1
KernelParameters(fractalType) ==
  {[zoom |-> num(1), centerX |-> cx, centerY |-> 0, iterations |-> it,
    escapeRadius |-> num(4), c |-> Complex(0 - 70, 27), tolerance |-> 10,
    roots |-> roots] :
     cx \in {0 - 50, 0},
     it \in {2, 4} \cup (IF fractalType = "newton" THEN {103, 200} ELSE {}),
     roots \in IF fractalType = "newton" THEN RootLists ELSE {<<>>}}

InitKernels ==
  /\ EngineInit(1)
  /\ tiling = NoTiling
  /\ \E fractalType \in SupportedTypes,
        width \in 1..KernelMaxWidth, height \in 1..KernelMaxHeight,
        tileSize \in 1..KernelMaxTileSize, poolSize \in 1..KernelMaxPool :
       \E p \in KernelParameters(fractalType) :
         probe = [phase |-> "kernels", fractalType |-> fractalType, parameters |-> p,
                  width |-> width, height |-> height,
                  tiles |-> Tiles(width, height, tileSize), poolSize |-> poolSize,
                  landed |-> {}, rejected |-> FALSE,
                  iterationData |-> ZeroMatrix(width, height),
                  cpu |-> NoResult, gpu |-> NoResult]

\* worker workerIndex(k) finishes tile k and the engine composites the
\* reply, or the worker's renderTile throws and the render rejects
WorkerTileCompleted(k) ==
  /\ probe.phase = "kernels"
  /\ k \in DOMAIN probe.tiles
  /\ k \notin probe.landed
  /\ ~probe.rejected
  /\ LET tile == probe.tiles[k]
     IN  probe' =
           IF tileThrows(probe.fractalType, probe.parameters)
             THEN [probe EXCEPT !.rejected = TRUE]
             ELSE [probe EXCEPT
                     !.landed = @ \cup {k},
                     !.iterationData =
                        CompositeIterations(@,
                          tileIterationData(probe.fractalType, probe.parameters,
                                            probe.width, probe.height, tile),
                          tile.tileX, tile.tileY, tile.tileWidth, tile.tileHeight)]
  /\ UNCHANGED <<engineVars, tiling>>

\* renderWithCPU scans the whole picture
CpuScan ==
  /\ probe.phase = "kernels"
  /\ ~probe.cpu.present
  /\ probe' = [probe EXCEPT
                 !.cpu = [present |-> TRUE,
                          iterationData |->
                            cpuIterationData(probe.fractalType, probe.parameters,
                                             probe.width, probe.height)]]
  /\ UNCHANGED <<engineVars, tiling>>

\* renderWithWebGPU: the GPU renders the whole picture (Mandelbrot only)
GpuDispatched ==
  /\ probe.phase = "kernels"
  /\ probe.fractalType = "mandelbrot"
  /\ ~probe.gpu.present
  /\ probe' = [probe EXCEPT
                 !.gpu = [present |-> TRUE,
                          iterationData |->
                            renderMandelbrot(probe.parameters, probe.width, probe.height)]]
  /\ UNCHANGED <<engineVars, tiling>>

NextKernels ==
  \/ \E k \in 1..(KernelMaxWidth * KernelMaxHeight) : WorkerTileCompleted(k)
  \/ CpuScan
  \/ GpuDispatched

SpecKernels == InitKernels /\ [][NextKernels]_vars

\* C18: for each of the four kinds and one request, the iteration matrix
\* the worker-pool backend composites equals, cell for cell, the matrix of
\* the single-threaded scan: every cell of every tile that has landed holds
\* the value the scan holds for that cell, whatever the tile size, the pool
\* size and the order in which tiles land.
WorkerMatrixEqualsCpuMatrix ==
  (probe.phase = "kernels" /\ probe.cpu.present) =>
    \A k \in probe.landed :
      \A x \in 0..(probe.width - 1), y \in 0..(probe.height - 1) :
        InTile(probe.tiles[k], x, y) =>
          probe.iterationData[y][x] = probe.cpu.iterationData[y][x]

\* a Newton picture of several tiles, all landed and scanned, in which a
\* pixel converged to a root other than the first and pixels differ
NewtonMatricesComparedWitness ==
  /\ probe.phase = "kernels"
  /\ probe.fractalType = "newton"
  /\ probe.cpu.present
  /\ Len(probe.tiles) > 1
  /\ probe.landed = DOMAIN probe.tiles
  /\ \E x \in 0..(probe.width - 1), y \in 0..(probe.height - 1) :
       probe.iterationData[y][x] >= 100 /\ probe.iterationData[y][x] # probe.iterationData[0][0]

(***************************************************************************)
(* The same comparison for the pixel buffers: the request carries a        *)
(* paletteType (or none), each worker and ColorPalette keep their palette  *)
(* cache.                                                                  *)
(***************************************************************************)
PixelMaxWidth == 2
PixelMaxHeight == 1
PixelMaxTileSize == 2
PixelMaxPool == 2

\* zoom 1, centre (0, 0), 4 iterations, escapeRadius 4, c = -0.7 + 0.27i,
\* tolerance 0.1
PixelParameters(fractalType) ==
  {[zoom |-> num(1), centerX |-> 0, centerY |-> 0, iterations |-> 4,
    escapeRadius |-> num(4), c |-> Complex(0 - 70, 27), tolerance |-> 10,
    roots |-> roots] :
     roots \in IF fractalType = "newton" THEN RootLists ELSE {<<>>}}

InitPixels ==
  /\ EngineInit(1)
  /\ tiling = NoTiling
  /\ \E fractalType \in SupportedTypes,
        width \in 1..PixelMaxWidth, height \in 1..PixelMaxHeight,
        tileSize \in 1..PixelMaxTileSize, poolSize \in 1..PixelMaxPool,
        paletteType \in PaletteTypes \cup {Undefined} :
       \E p \in PixelParameters(fractalType) :
         probe = [phase |-> "pixels", fractalType |-> fractalType, parameters |-> p,
                  width |-> width, height |-> height, paletteType |-> paletteType,
                  tiles |-> Tiles(width, height, tileSize), poolSize |-> poolSize,
                  landed |-> {}, rejected |-> FALSE,
                  finalImageData |-> NewImageData(width, height),
                  iterationData |-> ZeroMatrix(width, height),
                  \* the paletteCache of each worker and of ColorPalette
                  workerCaches |-> [w \in 1..poolSize |-> EmptyCache],
                  paletteCache |-> EmptyCache,
                  cpu |-> NoResult]

\* worker workerIndex(k) renders tile k with the palette of its
\* generatePalette and the engine composites the reply, or renderTile
\* throws after it fetched the palette and the render rejects
WorkerTilePainted(k) ==
  /\ probe.phase = "pixels"
  /\ k \in DOMAIN probe.tiles
  /\ k \notin probe.landed
  /\ ~probe.rejected
  /\ LET tile == probe.tiles[k]
         w == workerIndex(k, probe.poolSize) + 1
         paletteType == effectivePaletteType(probe.fractalType, probe.paletteType)
         got == generatePalette(probe.workerCaches[w], paletteType, PaletteSteps,
                                tileRootCount(probe.fractalType, probe.parameters))
         payload == [imageData |-> tileImageData(probe.fractalType, probe.parameters,
                                                 probe.width, probe.height, tile,
                                                 paletteType, got.palette),
                     iterationData |-> tileIterationData(probe.fractalType, probe.parameters,
                                                         probe.width, probe.height, tile),
                     tileX |-> tile.tileX, tileY |-> tile.tileY]
         comp == compositeTile(probe.finalImageData, probe.iterationData, payload,
                               tile.tileX, tile.tileY, tile.tileWidth, tile.tileHeight)
     IN  probe' =
           IF tileThrows(probe.fractalType, probe.parameters)
             THEN [probe EXCEPT !.rejected = TRUE, !.workerCaches[w] = got.cache]
             ELSE [probe EXCEPT
                     !.landed = @ \cup {k},
                     !.workerCaches[w] = got.cache,
                     !.finalImageData = comp.imageData,
                     !.iterationData = comp.iterationData]
  /\ UNCHANGED <<engineVars, tiling>>

\* renderWithCPU scans the whole picture and applies the palette
CpuPaint ==
  /\ probe.phase = "pixels"
  /\ ~probe.cpu.present
  /\ LET painted == cpuImageData(probe.paletteCache, probe.fractalType, probe.parameters,
                                 probe.width, probe.height, probe.paletteType)
     IN  probe' = [probe EXCEPT
                     !.paletteCache = painted.cache,
                     !.cpu = [present |-> TRUE,
                              imageData |-> painted.imageData,
                              iterationData |->
                                cpuIterationData(probe.fractalType, probe.parameters,
                                                 probe.width, probe.height)]]
  /\ UNCHANGED <<engineVars, tiling>>

NextPixels ==
  \/ \E k \in 1..(PixelMaxWidth * PixelMaxHeight) : WorkerTilePainted(k)
  \/ CpuPaint

SpecPixels == InitPixels /\ [][NextPixels]_vars

\* the four bytes of pixel (x, y) of an ImageData
PixelAt(imageData, x, y) ==
  [ch \in 0..(Channels - 1) |-> imageData.data[(y * imageData.width + x) * Channels + ch]]

\* C19: for one request (kind, parameters, width, height, paletteType) the
\* pixel buffer the worker-pool backend composites is byte-identical to the
\* buffer of the single-threaded scan: every pixel of every tile that has
\* landed holds the four bytes the scan holds for it, for every paletteType
\* and for an omitted one.
WorkerPixelsEqualCpuPixels ==
  (probe.phase = "pixels" /\ probe.cpu.present) =>
    \A k \in probe.landed :
      \A x \in 0..(probe.width - 1), y \in 0..(probe.height - 1) :
        InTile(probe.tiles[k], x, y) =>
          PixelAt(probe.finalImageData, x, y) = PixelAt(probe.cpu.imageData, x, y)

(***************************************************************************)
(* One request rendered twice on one backend.  Between and during the two  *)
(* runs other renders fetch palettes, which fills the palette caches, and  *)
(* ColorPalette.clearPaletteCache() may be called.                         *)
(***************************************************************************)
RepeatMaxWidth == 2
RepeatMaxTileSize == 2
RepeatMaxPool == 2
MaxFetches == 1

\* root counts of the other Newton renders
OtherRootCounts == {2, 3}

InitRepeat ==
  /\ EngineInit(1)
  /\ tiling = NoTiling
  /\ \E backend \in {"workers", "cpu"}, fractalType \in SupportedTypes,
        width \in 1..RepeatMaxWidth, tileSize \in 1..RepeatMaxTileSize,
        poolSize \in 1..RepeatMaxPool, paletteType \in {Undefined, "newton", "grayscale"} :
       \* the requests of the pixel comparison that have roots when they are
       \* Newton requests
       \E p \in {q \in PixelParameters(fractalType) : ~tileThrows(fractalType, q)} :
         \* the scan has neither tiles nor a pool: one region, one cache
         /\ backend = "cpu" => (tileSize = RepeatMaxTileSize /\ poolSize = 1)
         /\ probe = [phase |-> "repeat", backend |-> backend,
                     fractalType |-> fractalType, parameters |-> p,
                     width |-> width, height |-> 1, paletteType |-> paletteType,
                     tiles |-> Tiles(width, 1, IF backend = "cpu" THEN width ELSE tileSize),
                     poolSize |-> poolSize,
                     run |-> 1, landed |-> {}, order |-> <<>>,
                     finalImageData |-> NewImageData(width, 1),
                     iterationData |-> ZeroMatrix(width, 1),
                     first |-> NoResult,
                     workerCaches |-> [w \in 1..poolSize |-> EmptyCache],
                     paletteCache |-> EmptyCache,
                     fetches |-> 0, cleared |-> FALSE]

\* a tile of the current run lands on the worker backend
RepeatTilePainted(k) ==
  /\ probe.phase = "repeat"
  /\ probe.backend = "workers"
  /\ k \in DOMAIN probe.tiles
  /\ k \notin probe.landed
  /\ LET tile == probe.tiles[k]
         w == workerIndex(k, probe.poolSize) + 1
         paletteType == effectivePaletteType(probe.fractalType, probe.paletteType)
         got == generatePalette(probe.workerCaches[w], paletteType, PaletteSteps,
                                tileRootCount(probe.fractalType, probe.parameters))
         payload == [imageData |-> tileImageData(probe.fractalType, probe.parameters,
                                                 probe.width, probe.height, tile,
                                                 paletteType, got.palette),
                     iterationData |-> tileIterationData(probe.fractalType, probe.parameters,
                                                         probe.width, probe.height, tile),
                     tileX |-> tile.tileX, tileY |-> tile.tileY]
         comp == compositeTile(probe.finalImageData, probe.iterationData, payload,
                               tile.tileX, tile.tileY, tile.tileWidth, tile.tileHeight)
     IN  probe' = [probe EXCEPT
                     !.landed = @ \cup {k},
                     !.order = Append(@, k),
                     !.workerCaches[w] = got.cache,
                     !.finalImageData = comp.imageData,
                     !.iterationData = comp.iterationData]
  /\ UNCHANGED <<engineVars, tiling>>

\* the scan of the current run on the single-threaded backend
RepeatCpuPainted ==
  /\ probe.phase = "repeat"
  /\ probe.backend = "cpu"
  /\ probe.landed = {}
  /\ LET painted == cpuImageData(probe.paletteCache, probe.fractalType, probe.parameters,
                                 probe.width, probe.height, probe.paletteType)
     IN  probe' = [probe EXCEPT
                     !.landed = DOMAIN probe.tiles,
                     !.order = <<1>>,
                     !.paletteCache = painted.cache,
                     !.finalImageData = painted.imageData,
                     !.iterationData =
                        cpuIterationData(probe.fractalType, probe.parameters,
                                         probe.width, probe.height)]
  /\ UNCHANGED <<engineVars, tiling>>

\* the first render has fulfilled; the same request is rendered again
SecondRun ==
  /\ probe.phase = "repeat"
  /\ probe.run = 1
  /\ probe.landed = DOMAIN probe.tiles
  /\ probe' = [probe EXCEPT
                 !.run = 2, !.landed = {}, !.order = <<>>,
                 !.first = [present |-> TRUE, imageData |-> probe.finalImageData,
                            iterationData |-> probe.iterationData, order |-> probe.order],
                 !.finalImageData = NewImageData(probe.width, probe.height),
                 !.iterationData = ZeroMatrix(probe.width, probe.height)]
  /\ UNCHANGED <<engineVars, tiling>>

\* another Newton render with rootCount roots fetches its palette: on
\* worker w, or on the main thread
PaletteFetched(w, rootCount) ==
  /\ probe.phase = "repeat"
  /\ probe.fetches < MaxFetches
  /\ w \in 1..probe.poolSize
  /\ probe' =
       IF probe.backend = "workers"
         THEN [probe EXCEPT
                 !.fetches = @ + 1,
                 !.workerCaches[w] =
                    generatePalette(@, "newton", PaletteSteps, rootCount).cache]
         ELSE [probe EXCEPT
                 !.fetches = @ + 1,
                 !.paletteCache = generateNewton(@, PaletteSteps, rootCount).cache]
  /\ UNCHANGED <<engineVars, tiling>>

\* ColorPalette.clearPaletteCache()
clearPaletteCache ==
  /\ probe.phase = "repeat"
  /\ probe.backend = "cpu"
  /\ probe.paletteCache # EmptyCache
  /\ probe' = [probe EXCEPT !.paletteCache = EmptyCache, !.cleared = TRUE]
  /\ UNCHANGED <<engineVars, tiling>>

NextRepeat ==
  \/ \E k \in 1..RepeatMaxWidth : RepeatTilePainted(k)
  \/ RepeatCpuPainted
  \/ SecondRun
  \/ \E w \in 1..RepeatMaxPool, rootCount \in OtherRootCounts : PaletteFetched(w, rootCount)
  \/ clearPaletteCache

SpecRepeat == InitRepeat /\ [][NextRepeat]_vars

CapPixelsAreBlack ==
  probe.phase = "pixels" =>
    \A x \in 0..(probe.width - 1), y \in 0..(probe.height - 1) :
      /\ \A k \in probe.landed :
           (InTile(probe.tiles[k], x, y)
              /\ probe.iterationData[y][x] = probe.parameters.iterations) =>
             PixelAt(probe.finalImageData, x, y) = [ch \in 0..(Channels - 1) |-> Black[ch + 1]]
      /\ (probe.cpu.present
            /\ probe.cpu.iterationData[y][x] = probe.parameters.iterations) =>
           PixelAt(probe.cpu.imageData, x, y) = [ch \in 0..(Channels - 1) |-> Black[ch + 1]]

(***************************************************************************)
(* Palette requests: ColorPalette.getPalette and ColorPalette.generateNewton*)
(* called with small step counts, one call after the other on one cache.   *)
(***************************************************************************)
MaxSteps == 4
MaxRootCount == 5
MaxPaletteCalls == 2

InitPalette ==
  /\ EngineInit(1)
  /\ tiling = NoTiling
  /\ probe = [phase |-> "palette", calls |-> 0, name |-> Undefined, steps |-> 0,
              rootCount |-> 0, palette |-> <<>>, paletteCache |-> EmptyCache,
              side |-> Undefined, hit |-> FALSE, workerCache |-> EmptyCache,
              cleared |-> FALSE]

\* ColorPalette.getPalette(name, steps)
PaletteRequested(name, steps) ==
  /\ probe.phase = "palette"
  /\ probe.calls < MaxPaletteCalls
  /\ LET got == getPalette(probe.paletteCache, name, steps)
     IN  probe' = [probe EXCEPT !.calls = @ + 1, !.name = name, !.steps = steps,
                                !.rootCount = 0, !.palette = got.palette,
                                !.paletteCache = got.cache, !.side = "getPalette",
                                !.hit = name = "newton"
                                        /\ <<"newton", steps, 3>> \in DOMAIN probe.paletteCache,
                                !.cleared = FALSE]
  /\ UNCHANGED <<engineVars, tiling>>

\* ColorPalette.generateNewton(steps, rootCount)
NewtonRequested(steps, rootCount) ==
  /\ probe.phase = "palette"
  /\ probe.calls < MaxPaletteCalls
  /\ LET got == generateNewton(probe.paletteCache, steps, rootCount)
     IN  probe' = [probe EXCEPT !.calls = @ + 1, !.name = "newton", !.steps = steps,
                                !.rootCount = rootCount, !.palette = got.palette,
                                !.paletteCache = got.cache, !.side = "generateNewton",
                                !.hit = <<"newton", steps, rootCount>>
                                          \in DOMAIN probe.paletteCache,
                                !.cleared = FALSE]
  /\ UNCHANGED <<engineVars, tiling>>

\* a worker's generatePalette(type, steps, rootCount), with the root count
\* renderTile passes: roots.length for the 'newton' type of a Newton
\* render, undefined (0) otherwise
WorkerPaletteRequested(type, steps, rootCount) ==
  /\ probe.phase = "palette"
  /\ probe.calls < MaxPaletteCalls
  /\ LET got == generatePalette(probe.workerCache, type, steps, rootCount)
     IN  probe' = [probe EXCEPT !.calls = @ + 1, !.name = type, !.steps = steps,
                                !.rootCount = rootCount, !.palette = got.palette,
                                !.workerCache = got.cache, !.side = "generatePalette",
                                !.hit = <<type, steps, rootCount>>
                                          \in DOMAIN probe.workerCache,
                                !.cleared = FALSE]
  /\ UNCHANGED <<engineVars, tiling>>

\* ColorPalette.clearPaletteCache() between two requests
PaletteCacheCleared ==
  /\ probe.phase = "palette"
  /\ probe.calls > 0
  /\ ~probe.cleared
  /\ probe' = [probe EXCEPT !.paletteCache = EmptyCache, !.cleared = TRUE]
  /\ UNCHANGED <<engineVars, tiling>>

NextPalette ==
  \/ \E name \in getPaletteNames, steps \in 1..MaxSteps : PaletteRequested(name, steps)
  \/ \E steps \in 1..MaxSteps, rootCount \in 1..MaxRootCount :
       NewtonRequested(steps, rootCount)
  \/ \E type \in {"newton", "fire", "julia"}, steps \in 1..MaxSteps,
        rootCount \in 0..MaxRootCount :
       /\ (type = "newton") = (rootCount > 0)
       /\ WorkerPaletteRequested(type, steps, rootCount)
  \/ PaletteCacheCleared

SpecPalette == InitPalette /\ [][NextPalette]_vars

\* C22: every palette returned by getPalette(name, steps) for a name of
\* getPaletteNames and by the Newton generator has exactly steps entries, and
\* every entry is a quadruple of four channel values between 0 and 255.
PaletteIsStepsQuadruples ==
  (probe.phase = "palette" /\ probe.calls > 0) =>
    /\ DOMAIN probe.palette = 0..(probe.steps - 1)
    /\ \A i \in DOMAIN probe.palette :
         /\ Len(probe.palette[i]) = Channels
         /\ \A ch \in 1..Channels : probe.palette[i][ch] \in 0..255

\* C23: in a Newton render, whatever the iteration cap and the number of
\* roots, the root index decoded from every stored value as
\* floor(value / 100) is -1 or an index of the root list.
DecodedRootIndexValid ==
  (probe.phase = "kernels" /\ probe.fractalType = "newton") =>
    \A x \in 0..(probe.width - 1), y \in 0..(probe.height - 1) :
      LET valid(value) == \/ value \div 100 = 0 - 1
                          \/ value \div 100 \in 0..(Len(probe.parameters.roots) - 1)
      IN  /\ \A k \in probe.landed :
               InTile(probe.tiles[k], x, y) => valid(probe.iterationData[y][x])
          /\ probe.cpu.present => valid(probe.cpu.iterationData[y][x])

\* C24: in a Newton render the value stored for a converged pixel decodes
\* back to its pair: the iteration count is below 100, floor(value / 100) is
\* the root index, value % 100 is the iteration count, and the value is not
\* maxIterations, the value of a pixel that did not converge.
CompositeValueDecodes ==
  (probe.phase = "kernels" /\ probe.fractalType = "newton" /\ probe.cpu.present) =>
    \A x \in 0..(probe.width - 1), y \in 0..(probe.height - 1) :
      LET p == probe.parameters
          result == FractalCalculations_newton(
                      pixelReal(p, probe.width, probe.height, x),
                      pixelImaginary(p, probe.width, probe.height, y),
                      <<>>, p.tolerance, p.iterations, p.roots)
          value == probe.cpu.iterationData[y][x]
      IN  result.root >= 0 =>
            /\ result.iterations < 100
            /\ value \div 100 = result.root
            /\ value % 100 = result.iterations
            /\ value # p.iterations

(***************************************************************************)
(* Single calls of the Newton kernel, in the worker and on the main        *)
(* thread, from a root of the list or from another start point.            *)
(***************************************************************************)
MaxNewtonIterations == 4

\* the root lists of the requests and one with two roots 0.3 apart
NewtonRootLists ==
  (RootLists \ {<<>>}) \cup {<<Complex(num(1), 0), Complex(130, 0)>>}

\* start points that are not roots
StartPoints == {Complex(0, 0), Complex(50, 50), Complex(120, 0), Complex(0 - 60, 80)}

InitNewton ==
  /\ EngineInit(1)
  /\ tiling = NoTiling
  /\ \E roots \in NewtonRootLists, tolerance \in {10, 50},
        maxIterations \in 1..MaxNewtonIterations :
       \E start \in StartPoints \cup {roots[k] : k \in DOMAIN roots} :
         probe = [phase |-> "newton", roots |-> roots, start |-> start,
                  tolerance |-> tolerance, maxIterations |-> maxIterations,
                  worker |-> NoResult, cpu |-> NoResult]

\* calculateNewtonPoint(real, imaginary, tolerance, maxIterations, roots)
WorkerKernelCalled ==
  /\ probe.phase = "newton"
  /\ ~probe.worker.present
  /\ probe' = [probe EXCEPT
                 !.worker = [present |-> TRUE,
                             result |-> calculateNewtonPoint(
                                          probe.start.real, probe.start.imag,
                                          probe.tolerance, probe.maxIterations,
                                          probe.roots)]]
  /\ UNCHANGED <<engineVars, tiling>>

\* FractalCalculations.newton(real, imaginary, polynomial, tolerance,
\* maxIterations, roots)
CpuKernelCalled ==
  /\ probe.phase = "newton"
  /\ ~probe.cpu.present
  /\ probe' = [probe EXCEPT
                 !.cpu = [present |-> TRUE,
                          result |-> FractalCalculations_newton(
                                       probe.start.real, probe.start.imag, <<>>,
                                       probe.tolerance, probe.maxIterations,
                                       probe.roots)]]
  /\ UNCHANGED <<engineVars, tiling>>

NextNewton ==
  \/ WorkerKernelCalled
  \/ CpuKernelCalled

SpecNewton == InitNewton /\ [][NextNewton]_vars

\* C25: a kernel call that starts exactly on roots[k] of a list of pairwise
\* distinct roots reports root index k with an iteration count of 0 or 1.
StartOnRootReportsThatRoot ==
  probe.phase = "newton" =>
    \A k \in DOMAIN probe.roots :
      probe.start = probe.roots[k] =>
        /\ probe.worker.present =>
             /\ probe.worker.result.root = k - 1
             /\ probe.worker.result.iterations \in {0, 1}
        /\ probe.cpu.present =>
             /\ probe.cpu.result.root = k - 1
             /\ probe.cpu.result.iterations \in {0, 1}

\* the point zNext at which FractalCalculations.newton detects convergence:
\* the same loop as the kernel's, yielding the point in place of the root
convergedPoint(real, imaginary, tolerance, maxIterations, roots) ==
  LET RECURSIVE loop(_, _)
      loop(z, iteration) ==
        IF iteration >= maxIterations THEN [converged |-> FALSE]
        ELSE LET ev == evaluatePolynomialFromRoots(z, roots)
             IN  IF ComplexMath_magnitude(ev.fPrime) < DerivativeFloor
                   THEN [converged |-> FALSE]
                   ELSE LET zNext == ComplexMath_subtract(z, ComplexMath_divide(ev.f, ev.fPrime))
                        IN  IF ComplexMath_magnitude(ComplexMath_subtract(zNext, z)) < tolerance
                              THEN [converged |-> TRUE, zNext |-> zNext]
                              ELSE loop(zNext, iteration + 1)
  IN  loop([real |-> real, imag |-> imaginary], 0)

\* C30: when the kernel detects convergence, the root index it returns is
\* the lowest index among the roots at the least squared distance from the
\* converged point, also when two roots lie within tolerance of each other.
ReturnsLowestNearestRoot ==
  probe.phase = "newton" =>
    LET at == convergedPoint(probe.start.real, probe.start.imag, probe.tolerance,
                             probe.maxIterations, probe.roots)
        distance(i) == LET dx == at.zNext.real - probe.roots[i].real
                           dy == at.zNext.imag - probe.roots[i].imag
                       IN  fmul(dx, dx) + fmul(dy, dy)
        nearest == CHOOSE i \in DOMAIN probe.roots :
                     /\ \A j \in DOMAIN probe.roots : distance(i) <= distance(j)
                     /\ \A j \in 1..(i - 1) : distance(j) > distance(i)
    IN  at.converged =>
          /\ probe.worker.present => probe.worker.result.root = nearest - 1
          /\ probe.cpu.present => probe.cpu.result.root = nearest - 1

\* C26: the matrix the GPU renders for a Mandelbrot request equals, cell for
\* cell, the matrix of the single-threaded scan and every landed tile of the
\* worker pool for the same request.
GpuMatrixEqualsCpuMatrix ==
  (probe.phase = "kernels" /\ probe.gpu.present) =>
    \A x \in 0..(probe.width - 1), y \in 0..(probe.height - 1) :
      /\ probe.cpu.present =>
           probe.gpu.iterationData[y][x] = probe.cpu.iterationData[y][x]
      /\ \A k \in probe.landed :
           InTile(probe.tiles[k], x, y) =>
             probe.gpu.iterationData[y][x] = probe.iterationData[y][x]

\* C27: the creation of the worker pool does not wait for the GPU: while the
\* GPU initialization has not settled, the workers have already been
\* constructed.
WorkersStartWithoutGpu ==
  (probe.phase = "off" /\ gpu.pc \in {"adapter", "device"}) =>
    \E i \in WorkerIds : workerStatus[i] # "none"

\* C28: in one worker render the tiles are generated in row-major order,
\* tile k (counted from 0) is posted once, to pool member k mod poolSize, and
\* the numbers of tiles of any two pool members differ by at most one.
TilesSpreadRoundRobin ==
  tiling.phase = "tiles" =>
    LET n == Len(tiling.pool)
        columns == CeilDiv(tiling.width, tiling.tileSize)
        given(m) == Cardinality({k \in DOMAIN tiling.tiles :
                                   tiling.tileWorker[k] = tiling.pool[m]})
    IN  /\ \A k \in DOMAIN tiling.tiles :
             /\ tiling.tiles[k].tileX = ((k - 1) % columns) * tiling.tileSize
             /\ tiling.tiles[k].tileY = ((k - 1) \div columns) * tiling.tileSize
             /\ tiling.tileWorker[k] = tiling.pool[((k - 1) % n) + 1]
             /\ tiling.posted[k] = 1
        /\ \A a, b \in 1..n : given(a) - given(b) <= 1

\* three workers share four tiles, and a tile has landed
UnevenShareWitness ==
  /\ tiling.phase = "tiles"
  /\ Len(tiling.pool) = 3
  /\ Len(tiling.tiles) = 4
  /\ tiling.completedTiles > 0

\* C29: in a worker render with T tiles onProgress has been invoked once for
\* every tile that has been composited, with the values 1/T, 2/T, ... in that
\* order, and a render that has resolved has had exactly the T invocations
\* 1/T, ..., T/T.
WorkerProgressCountsTiles ==
  \A t \in DOMAIN tasks :
    tasks[t].method = "workers" /\ tasks[t].dispatched =>
      LET task == tasks[t]
          T == Len(task.tiles)
          composited == {k \in DOMAIN task.tiles : task.tileState[k] = "done"}
      IN  /\ task.progress = [j \in 1..Cardinality(composited) |-> <<j, T>>]
          /\ task.status = "fulfilled" => task.progress = [j \in 1..T |-> <<j, T>>]

\* a resolved worker render of two tiles that went to two workers
TwoTileRenderResolvedWitness ==
  \E t \in DOMAIN tasks :
    /\ tasks[t].method = "workers"
    /\ tasks[t].status = "fulfilled"
    /\ Len(tasks[t].tiles) = 2
    /\ tasks[t].tileWorker[1] # tasks[t].tileWorker[2]

\* C31: a kernel call whose derivative falls below 1e-14 stops there and
\* reports root = -1 with iterations = maxIterations, and so does a call
\* that runs maxIterations steps without convergence; a call reports
\* root = -1 in no other case.
NonConvergentIsReported ==
  probe.phase = "newton" =>
    LET at == convergedPoint(probe.start.real, probe.start.imag, probe.tolerance,
                             probe.maxIterations, probe.roots)
        fPrime == evaluatePolynomialFromRoots(probe.start, probe.roots).fPrime
        none == [iterations |-> probe.maxIterations, root |-> 0 - 1]
        reported(call) ==
          call.present =>
            /\ ComplexMath_magnitude(fPrime) < DerivativeFloor => call.result = none
            /\ ~at.converged => call.result = none
            /\ at.converged => call.result.root >= 0
                                 /\ call.result.iterations < probe.maxIterations
    IN  reported(probe.worker) /\ reported(probe.cpu)

\* both kernels were called at a start point where the derivative vanishes,
\* with more than one iteration allowed
VanishingDerivativeWitness ==
  /\ probe.phase = "newton"
  /\ probe.worker.present /\ probe.cpu.present
  /\ probe.maxIterations > 1
  /\ ComplexMath_magnitude(evaluatePolynomialFromRoots(probe.start, probe.roots).fPrime)
       < DerivativeFloor

(***************************************************************************)
(* Two converged pixels of one Newton render with the 'newton' palette:    *)
(* roots a and b, the same iteration count, painted by the worker's        *)
(* renderTile and by FractalEngine.applyNewtonPalette.                     *)
(***************************************************************************)
MaxShadeRoots == 11
MaxShadeIterations == 4

InitShades ==
  /\ EngineInit(1)
  /\ tiling = NoTiling
  /\ \E rootCount \in 2..MaxShadeRoots, iterations \in 0..(MaxShadeIterations - 1) :
       \E a \in 0..(rootCount - 1), b \in 0..(rootCount - 1) :
         /\ a < b
         /\ probe = [phase |-> "shades",
                     parameters |-> [roots |-> [i \in 1..rootCount |-> Complex(num(i), 0)],
                                     iterations |-> MaxShadeIterations],
                     a |-> a, b |-> b, iterations |-> iterations,
                     worker |-> NoResult, cpu |-> NoResult]

\* renderTile paints the two pixels with the palette of generatePalette
WorkerShaded ==
  /\ probe.phase = "shades"
  /\ ~probe.worker.present
  /\ LET p == probe.parameters
         palette == generatePalette(EmptyCache, "newton", PaletteSteps,
                                    tileRootCount("newton", p)).palette
         color(root) == tilePixelColor("newton", p, "newton", palette,
                                       root * 100 + probe.iterations)
     IN  probe' = [probe EXCEPT !.worker = [present |-> TRUE, a |-> color(probe.a),
                                            b |-> color(probe.b)]]
  /\ UNCHANGED <<engineVars, tiling>>

\* renderNewtonCPU paints them with the palette of getNewtonPalette
CpuShaded ==
  /\ probe.phase = "shades"
  /\ ~probe.cpu.present
  /\ LET p == probe.parameters
         palette == generateNewton(EmptyCache, PaletteSteps, rootCountOf(p)).palette
         color(root) == applyNewtonPaletteColor(root * 100 + probe.iterations, p.iterations,
                                                palette, rootCountOf(p))
     IN  probe' = [probe EXCEPT !.cpu = [present |-> TRUE, a |-> color(probe.a),
                                         b |-> color(probe.b)]]
  /\ UNCHANGED <<engineVars, tiling>>

NextShades ==
  \/ WorkerShaded
  \/ CpuShaded

SpecShades == InitShades /\ [][NextShades]_vars

\* C32: with the 'newton' palette, for any number of roots, two pixels that
\* converged to different roots after the same number of iterations have
\* different colours, and the colour of each is an entry of the partition
\* of its own root.
RootsHaveDistinctShades ==
  probe.phase = "shades" =>
    LET rootCount == Len(probe.parameters.roots)
        colorsPerSet == PaletteSteps \div (IF rootCount >= 4 THEN rootCount + 1
                                           ELSE rootCount)
        palette == generateNewton(EmptyCache, PaletteSteps, rootCount).palette
        partition(root) == {palette[i] : i \in (root * colorsPerSet)
                                               ..((root + 1) * colorsPerSet - 1)}
        distinct(painted) ==
          painted.present =>
            /\ painted.a # painted.b
            /\ painted.a \in partition(probe.a)
            /\ painted.b \in partition(probe.b)
    IN  distinct(probe.worker) /\ distinct(probe.cpu)

\* C33: memoization is transparent: every entry of the main thread's and of
\* a worker's palette cache is the palette generated for its key, the
\* palette a request returns is the palette generated for that request
\* whether or not it came from the cache, and clearPaletteCache() leaves the
\* cache empty.
MemoizationTransparent ==
  probe.phase = "palette" =>
    /\ \A key \in DOMAIN probe.paletteCache :
         probe.paletteCache[key] = generateNewton(EmptyCache, key[2], key[3]).palette
    /\ \A key \in DOMAIN probe.workerCache :
         probe.workerCache[key]
           = generatePalette(EmptyCache, key[1], key[2], key[3]).palette
    /\ probe.calls > 0 =>
         probe.palette =
           CASE probe.side = "getPalette" ->
                  getPalette(EmptyCache, probe.name, probe.steps).palette
             [] probe.side = "generateNewton" ->
                  generateNewton(EmptyCache, probe.steps, probe.rootCount).palette
             [] probe.side = "generatePalette" ->
                  generatePalette(EmptyCache, probe.name, probe.steps,
                                  probe.rootCount).palette
    /\ probe.cleared => Cardinality(DOMAIN probe.paletteCache) = 0

\* the last of the requests was served from the cache
CacheHitWitness ==
  /\ probe.phase = "palette"
  /\ probe.calls = MaxPaletteCalls
  /\ probe.hit

(***************************************************************************)
(* renderFractal called with complete requests: next to the components of  *)
(* the fingerprint a request carries a zoom (standing for the parameters   *)
(* and options the template strings do not mention: zoom, centre, escape   *)
(* radius, palette, roots) and the backend flags.  The engine is taken     *)
(* before its initialisation has finished, so every render is a CPU scan   *)
(* that settles in the microtasks after the call.  probe.requests[i] is    *)
(* the request of calls[i].                                                *)
(***************************************************************************)
DedupKinds == {"mandelbrot", "julia"}
\* c.real of the julia requests, in units of 10^-5: 0.00004 prints as
\* 0.0000, 0.00006 and 0.00014 print as 0.0001
DedupCReals == {4, 6, 14}
DedupIterationCaps == {3, 5}
MaxZoom == 2

InitDedup ==
  /\ EngineInit(1)
  /\ tiling = NoTiling
  /\ probe = [phase |-> "dedup", requests |-> <<>>]

DedupRender(fractalType, c, iterations, zoom, useWebGPU, useWorkers) ==
  /\ probe.phase = "dedup"
  /\ renderFractal(fractalType, c, iterations, CanvasWidth, CanvasHeight,
                   useWebGPU, useWorkers, 1)
  /\ probe' = [probe EXCEPT !.requests =
                 Append(@, [fractalType |-> fractalType, c |-> c,
                            iterations |-> iterations, zoom |-> zoom,
                            useWebGPU |-> useWebGPU, useWorkers |-> useWorkers])]

NextDedup ==
  \/ \E fractalType \in DedupKinds, iterations \in DedupIterationCaps,
        zoom \in 1..MaxZoom, useWebGPU \in BOOLEAN, useWorkers \in BOOLEAN :
       \E cr \in (IF fractalType = "julia" THEN DedupCReals ELSE {0}) :
         DedupRender(fractalType, [real |-> cr, imag |-> 0], iterations, zoom,
                     useWebGPU, useWorkers)
  \/ \E t \in DOMAIN tasks, renderTime \in 1..MaxRenderTime : SettleTask(t, renderTime)

SpecDedup == InitDedup /\ [][NextDedup]_vars

\* C34: the fingerprint holds only the kind, the iteration cap, the width
\* and the height, and for julia c rounded to 4 decimals: a call made while
\* a render is in flight joins it exactly when the two requests agree on
\* these, whatever their zoom and backend flags; the joining call gets the
\* promise of the render in flight and no render is dispatched for its own
\* request.
FingerprintIgnoresTheRest ==
  [][(probe.phase = "dedup" /\ Len(calls') = Len(calls) + 1) =>
       LET j == Len(calls')
           rj == probe'.requests[j]
           round4(v) == (v + 5) \div 10
           same(i) ==
             LET ri == probe.requests[i]
             IN  /\ ri.fractalType = rj.fractalType
                 /\ ri.iterations = rj.iterations
                 /\ rj.fractalType = "julia" =>
                      /\ round4(ri.c.real) = round4(rj.c.real)
                      /\ round4(ri.c.imag) = round4(rj.c.imag)
           \* the earlier calls whose render is in flight and whose request
           \* agrees with the new one on the fingerprint
           inFlight == {i \in DOMAIN calls :
                          /\ calls[i].fresh
                          /\ tasks[calls[i].task].status = "running"
                          /\ same(i)}
       IN  /\ Len(probe'.requests) = j
           /\ inFlight # {} =>
                /\ ~calls'[j].fresh
                /\ \E i \in inFlight : calls'[j].task = calls[i].task
                /\ tasks' = tasks
           /\ inFlight = {} =>
                /\ calls'[j].fresh
                /\ calls'[j].task = Len(tasks) + 1
                /\ Len(tasks') = Len(tasks) + 1]_vars

\* a julia call that joined the render of a call with another c (0.00006
\* against 0.00014), another zoom and other backend flags, and the render
\* then fulfilled for both
JoinedDespiteDifferencesWitness ==
  /\ probe.phase = "dedup"
  /\ \E i, j \in DOMAIN calls :
       /\ i < j /\ calls[i].fresh /\ ~calls[j].fresh
       /\ calls[j].task = calls[i].task
       /\ probe.requests[i].c.real # probe.requests[j].c.real
       /\ probe.requests[i].zoom # probe.requests[j].zoom
       /\ probe.requests[i].useWebGPU # probe.requests[j].useWebGPU
       /\ probe.requests[i].useWorkers # probe.requests[j].useWorkers
       /\ tasks[calls[i].task].result.present

\* C35: options.onProgress is not invoked for a render once its promise has
\* settled: the list of values passed to onProgress no longer grows after
\* the render fulfilled or rejected.
NoProgressAfterSettlement ==
  [][\A t \in DOMAIN tasks :
       tasks[t].status # "running" => tasks'[t].progress = tasks[t].progress]_vars

(***************************************************************************)
(* The engine with the scheduling of the event loops: a queued microtask   *)
(* runs, the mapAsync promise of a render settles, a worker that has not   *)
(* been terminated handles the messages of its queue, and the engine       *)
(* handles the messages such a worker posted.  Nothing obliges a caller to *)
(* call renderFractal or dispose.                                          *)
(***************************************************************************)
EventLoopsRun ==
  /\ WF_vars(\E t \in DOMAIN tasks, renderTime \in 1..MaxRenderTime :
               SettleTask(t, renderTime))
  /\ WF_vars(\E t \in DOMAIN tasks, ok \in BOOLEAN, renderTime \in 1..MaxRenderTime :
               GpuMapSettled(t, ok, renderTime))
  /\ \A w \in 1..MaxCores :
       /\ WF_vars(w \in WorkerIds /\ \E fault \in BOOLEAN : WorkerHandle(w, fault))
       /\ WF_vars(w \in WorkerIds
                    /\ \E renderTime \in 1..MaxRenderTime : DeliverMessage(w, renderTime))

\* one core, and callers that request Mandelbrot renders of one iteration cap
InitEventLoops ==
  /\ EngineInit(1)
  /\ tiling = NoTiling
  /\ probe = NoProbe

NextEventLoops ==
  \/ \E ok \in BOOLEAN, thrown \in SUBSET WorkerIds : GpuAdapterResolved(ok, thrown)
  \/ \E outcome \in {"ok", "deviceError", "pipelineError"}, thrown \in SUBSET WorkerIds :
       GpuDeviceResolved(outcome, thrown)
  \/ \E i \in WorkerIds : WorkerAck(i)
  \/ \E i \in WorkerIds : WorkerInitTimeout(i)
  \/ \E i \in WorkerIds : WorkerErrorEvent(i)
  \/ \E useWebGPU \in BOOLEAN, useWorkers \in BOOLEAN, tileSize \in 1..MaxTileSize :
       RenderFractal("mandelbrot", NoC, 3, CanvasWidth, CanvasHeight,
                     useWebGPU, useWorkers, tileSize)
  \/ \E t \in DOMAIN tasks, renderTime \in 1..MaxRenderTime : SettleTask(t, renderTime)
  \/ \E t \in DOMAIN tasks, ok \in BOOLEAN, renderTime \in 1..MaxRenderTime :
       GpuMapSettled(t, ok, renderTime)
  \/ \E w \in WorkerIds, fault \in BOOLEAN : WorkerHandle(w, fault)
  \/ \E w \in WorkerIds, renderTime \in 1..MaxRenderTime : DeliverMessage(w, renderTime)
  \/ Dispose

SpecEventLoops == InitEventLoops /\ [][NextEventLoops]_vars /\ EventLoopsRun

\* C36: the promise of every render eventually settles, and the in-flight
\* map eventually no longer maps its fingerprint to it.
EveryRenderSettles ==
  \A t \in 1..MaxCalls :
    (t \in DOMAIN tasks) ~>
      /\ t \in DOMAIN tasks
      /\ tasks[t].status # "running"
      /\ \A key \in DOMAIN currentRenderingTasks : currentRenderingTasks[key] # t

\* C37: in every state of the GPU engine, also after a dispose() that ran
\* while initialize() was waiting for the adapter or for the device,
\* initialized = true implies that device, pipeline and bindGroupLayout are
\* set, and no render that took the GPU branch was stopped by the guard at
\* the top of renderMandelbrot.
GpuReadyHasResources ==
  /\ gpu.isInitialized => gpu.device /\ gpu.pipeline /\ gpu.bindGroupLayout
  /\ \A t \in DOMAIN tasks : tasks[t].method = "webgpu" => ~tasks[t].willThrow

\* dispose() ran while requestDevice was pending (the adapter field stays
\* null), initialize() then completed, and a render on the GPU fulfilled
GpuRenderAfterEarlyDisposeWitness ==
  /\ disposeCount > 0
  /\ gpu.isInitialized /\ ~gpu.adapter
  /\ \E t \in DOMAIN tasks : tasks[t].method = "webgpu" /\ tasks[t].status = "fulfilled"

\* C38: while the engine is not ready the worker pool is empty, and a
\* renderFractal call made then that starts a render is never tiled across
\* workers and not turned away: the render runs on the GPU when the call
\* asked for the GPU, the kind is Mandelbrot and the GPU engine is
\* initialised, and as a CPU scan otherwise (which throws only for a kind
\* without a CPU kernel).
NotReadyMeansNoWorkers ==
  /\ [](~isInitialized => workerPool = <<>>)
  /\ [][(~isInitialized /\ Len(tasks') = Len(tasks) + 1) =>
          LET task == tasks'[Len(tasks')]
              call == calls'[Len(calls')]
              onGpu == /\ call.seen.gpuRequested
                       /\ task.fractalType = "mandelbrot"
                       /\ isWebGPUSupported /\ gpu.isInitialized
          IN  /\ call.fresh /\ call.task = Len(tasks')
              /\ task.method = IF onGpu THEN "webgpu" ELSE "cpu"
              /\ task.dispatched \/ task.fractalType \notin SupportedTypes]_vars

\* before the engine is ready (the worker pool is still being created) one
\* render was served by the GPU and another by the CPU scan
ServedBeforeReadyWitness ==
  /\ ~isInitialized
  /\ \E t, u \in DOMAIN tasks :
       /\ tasks[t].method = "webgpu" /\ tasks[t].status = "fulfilled"
       /\ tasks[u].method = "cpu" /\ tasks[u].status = "fulfilled"

\* C39: every pixel of the buffer a successful render returns has been
\* written and has alpha 255: on the single-threaded backend once the scan
\* is done, on the worker pool once every tile has landed, for every kind
\* and every palette.
EveryPixelOpaque ==
  probe.phase = "pixels" =>
    \A x \in 0..(probe.width - 1), y \in 0..(probe.height - 1) :
      /\ probe.cpu.present => PixelAt(probe.cpu.imageData, x, y)[3] = OpaqueAlpha
      /\ (probe.landed = DOMAIN probe.tiles /\ ~probe.rejected) =>
           PixelAt(probe.finalImageData, x, y)[3] = OpaqueAlpha
====
